---- MODULE Spec2Model ----
(***************************************************************************)
(* HundredX AI response enhancement (content.js, vendor-agnostic script):  *)
(* query cache, enrichment client, early processing, response processing,  *)
(* retry, settings listener and the periodic sweep, as a state machine.    *)
(* The demoMode setting is left at its default (off).                      *)
(***************************************************************************)
EXTENDS Integers, Sequences, FiniteSets, TLC

\* ------------------------------------------------------------------ bounds
MaxEarly == 2      \* processQueryEarly invocations per behaviour
MaxReq == 2        \* api.processQuery invocations per behaviour
MaxBatch == 2      \* processAllResponses invocations running at a time
MaxRetryClicks == 1 \* hxRetry invocations per behaviour
MaxPending == 1    \* undelivered storage change notifications
MaxObserved == 2   \* mutation observer callbacks waiting at a time
TimeStep == 500    \* ms, the grain of the time the observer callbacks wait
MaxFields == 2    \* input field nodes the page mounts
MaxButtons == 2   \* submit buttons the page mounts

\* ------------------------------------------------------- program constants
maxRetries == 2          \* HundredXAPI.maxRetries
BackoffUnit == 1000      \* ms, setTimeout(resolve, 1000 * (retryCount + 1))
FiveMinutes == 5         \* cache age threshold, in minutes (5 * 60 * 1000 ms)
ContextLimit == 50       \* processedQueryContexts.size > 50 clears the set
MinSubstantialLength == 200  \* isSubstantialResponse: text.length >= 200
MinCandidateLength == 100    \* isSubstantialResponse: text.length < 100
minResponseLength == 200     \* timing.minResponseLength
debounceDelay == 1000        \* ms, timing.debounceDelay (claude, perplexity)
LandingPageLimit == 3000     \* Meta: bodyTextLength > 3000 means a conversation
MinQueryLength == 10         \* query.trim().length > 10 starts early processing
PollInterval == 1000         \* ms, setTimeout(setupInputListener, 1000)

Null == "null"
Undefined == "undefined"
NoResult == [null |-> TRUE]   \* a result reference that is null
NoQuery == <<>>               \* a query that is null (or empty: both falsy)

\* ------------------------------------------------------------ query texts
\* Queries are character sequences.  WhichIsBest = "Which is best",
\* TellMeAJoke = "tell me a joke".
WhichIsBest == <<"W","h","i","c","h"," ","i","s"," ","b","e","s","t">>
TellMeAJoke == <<"t","e","l","l"," ","m","e"," ","a"," ","j","o","k","e">>
Queries == {WhichIsBest, TellMeAJoke}

UpperCase == <<"A","B","C","D","E","F","G","H","I","J","K","L","M",
               "N","O","P","Q","R","S","T","U","V","W","X","Y","Z">>
LowerCase == <<"a","b","c","d","e","f","g","h","i","j","k","l","m",
               "n","o","p","q","r","s","t","u","v","w","x","y","z">>

\* one character lower-cased (the /i flag of the keyword pattern)
ToLower(c) ==
  IF \E k \in 1..26 : UpperCase[k] = c
  THEN LowerCase[CHOOSE k \in 1..26 : UpperCase[k] = c]
  ELSE c

\* the alternatives of the commercial keyword pattern
CommercialKeywords ==
  { <<"b","e","s","t">>, <<"c","o","m","p","a","r","e">>, <<"v","s">>,
    <<"v","e","r","s","u","s">>, <<"t","o","p">>, <<"w","h","i","c","h">>,
    <<"b","e","t","t","e","r">>, <<"g","o","o","d">>,
    <<"r","e","c","o","m","m","e","n","d">>, <<"p","r","i","c","e">>,
    <<"q","u","a","l","i","t","y">>, <<"s","e","r","v","i","c","e">>,
    <<"v","a","l","u","e">>, <<"s","t","o","r","e">>, <<"b","r","a","n","d">> }

\* keyword k occurs in text s at some position, ignoring case
ContainsIgnoreCase(s, k) ==
  \E i \in 1..(Len(s) - Len(k) + 1) :
    \A j \in 1..Len(k) : ToLower(s[i + j - 1]) = k[j]

\* /best|compare|vs|...|brand/i.test(query)
IsCommercial(q) == \E k \in CommercialKeywords : ContainsIgnoreCase(q, k)

\* ----------------------------------------------------------------- demo mode
\* the questions of DEMO_QUESTIONS, in catalog order ("EMDASH" stands for
\* the one character U+2014)
\* q1: Which weight-loss drug is safer: Zepbound or Wegovy?
DemoQuestion1 ==
  <<"W","h","i","c","h"," ","w","e","i","g","h","t","-","l","o","s","s",
    " ","d","r","u","g"," ","i","s"," ","s","a","f","e","r",":"," ","Z",
    "e","p","b","o","u","n","d"," ","o","r"," ","W","e","g","o","v","y",
    "?">>

\* q2: Which streaming platforms have the best original content?
DemoQuestion2 ==
  <<"W","h","i","c","h"," ","s","t","r","e","a","m","i","n","g"," ","p",
    "l","a","t","f","o","r","m","s"," ","h","a","v","e"," ","t","h","e",
    " ","b","e","s","t"," ","o","r","i","g","i","n","a","l"," ","c","o",
    "n","t","e","n","t","?">>

\* q3: How do people rate Coinbase's crypto trading platform?
DemoQuestion3 ==
  <<"H","o","w"," ","d","o"," ","p","e","o","p","l","e"," ","r","a","t",
    "e"," ","C","o","i","n","b","a","s","e","'","s"," ","c","r","y","p",
    "t","o"," ","t","r","a","d","i","n","g"," ","p","l","a","t","f","o",
    "r","m","?">>

\* q4: What are the healthiest cereal brands?
DemoQuestion4 ==
  <<"W","h","a","t"," ","a","r","e"," ","t","h","e"," ","h","e","a","l",
    "t","h","i","e","s","t"," ","c","e","r","e","a","l"," ","b","r","a",
    "n","d","s","?">>

\* q5: I like e.l.f. Cosmetics (EMDASH) what other makeup brands should I consider?
DemoQuestion5 ==
  <<"I"," ","l","i","k","e"," ","e",".","l",".","f","."," ","C","o","s",
    "m","e","t","i","c","s"," ","EMDASH"," ","w","h","a","t"," ","o",
    "t","h","e","r"," ","m","a","k","e","u","p"," ","b","r","a","n","d",
    "s"," ","s","h","o","u","l","d"," ","I"," ","c","o","n","s","i","d",
    "e","r","?">>

DEMO_QUESTIONS ==
  << [id |-> "q1", question |-> DemoQuestion1],
     [id |-> "q2", question |-> DemoQuestion2],
     [id |-> "q3", question |-> DemoQuestion3],
     [id |-> "q4", question |-> DemoQuestion4],
     [id |-> "q5", question |-> DemoQuestion5] >>

\* (variant) the demo entry made like a normal one, with no result yet
DemoPending(d) == NoResult

\* demoQuestion.response: a successful answer without _errorType
DemoResponse(d) ==
  [success |-> TRUE, error |-> Null, errorType |-> Undefined,
   retryable |-> Undefined, answer |-> DEMO_QUESTIONS[d].id]

\* the characters \s matches
IsSpace(c) == c \in {" ", "\t", "\n"}

\* String.prototype.toLowerCase
toLowerCase(str) == [i \in 1..Len(str) |-> ToLower(str[i])]

\* String.prototype.trim
trim(str) ==
  LET kept == {i \in 1..Len(str) : ~IsSpace(str[i])}
  IN IF kept = {} THEN <<>>
     ELSE SubSeq(str, CHOOSE i \in kept : \A j \in kept : i <= j,
                      CHOOSE i \in kept : \A j \in kept : j <= i)

\* str.replace(/\s+/g, ' ')
CollapseSpaces(str) ==
  LET starts(i) == ~IsSpace(str[i]) \/ i = 1 \/ ~IsSpace(str[i - 1])
      kept == SelectSeq([i \in 1..Len(str) |-> i], starts)
  IN [j \in 1..Len(kept) |-> IF IsSpace(str[kept[j]]) THEN " " ELSE str[kept[j]]]

\* normalizeString: lower case, trim, whitespace runs collapsed
normalizeString(str) == CollapseSpaces(trim(toLowerCase(str)))

\* stringSimilarity: the number of positions at which the shorter
\* normalized string agrees with the longer one, and the longer length
SimilarityMatches(str1, str2) ==
  LET s1 == normalizeString(str1)
      s2 == normalizeString(str2)
      longer == IF Len(s1) > Len(s2) THEN s1 ELSE s2
      shorter == IF Len(s1) > Len(s2) THEN s2 ELSE s1
  IN Cardinality({i \in 1..Len(shorter) : shorter[i] = longer[i]})

SimilarityLength(str1, str2) ==
  LET s1 == normalizeString(str1)
      s2 == normalizeString(str2)
  IN IF Len(s1) > Len(s2) THEN Len(s1) ELSE Len(s2)

\* (variant) the threshold excluded
SimilarityAbove95(str1, str2) ==
  \/ normalizeString(str1) = normalizeString(str2)
  \/ SimilarityLength(str1, str2) = 0
  \/ 100 * SimilarityMatches(str1, str2) > 95 * SimilarityLength(str1, str2)

\* stringSimilarity(str1, str2) >= 0.95
SimilarityAtLeast95(str1, str2) ==
  \/ normalizeString(str1) = normalizeString(str2)
  \/ SimilarityLength(str1, str2) = 0
  \/ 100 * SimilarityMatches(str1, str2) >= 95 * SimilarityLength(str1, str2)

\* findDemoQuestion with demo mode on: the index of the first question equal
\* to the query after normalization, else of the first one at least 95%
\* similar, else 0 (null)
findDemoQuestion(query) ==
  LET exact == {d \in DOMAIN DEMO_QUESTIONS :
                  normalizeString(DEMO_QUESTIONS[d].question) = normalizeString(query)}
      fuzzy == {d \in DOMAIN DEMO_QUESTIONS :
                  SimilarityAtLeast95(query, DEMO_QUESTIONS[d].question)}
  IN IF exact # {} THEN CHOOSE d \in exact : \A o \in exact : d <= o
     ELSE IF fuzzy # {} THEN CHOOSE d \in fuzzy : \A o \in fuzzy : d <= o
     ELSE 0

\* --------------------------------------------------------- enrichment client
\* What one fetch of /api/answer can do.
Outcomes == {"ok", "okfail", "abort", "http500", "http404", "http400",
             "failedfetch", "badjson"}

\* the fetch outcomes that are a response with a non-2xx status
StatusOutcomes == {"http500", "http503", "http404", "http400", "http403"}

\* response.status of such an outcome
StatusOf(o) ==
  CASE o = "http500" -> 500
    [] o = "http503" -> 503
    [] o = "http404" -> 404
    [] o = "http400" -> 400
    [] o = "http403" -> 403

\* (variant) only a status above 500 is a server error
StatusMessageAbove500(status) ==
  IF status > 500 THEN "SERVER_ERROR"
  ELSE IF status = 404 THEN "ENDPOINT_NOT_FOUND"
  ELSE "HTTP_" \o ToString(status)

\* the message of the Error thrown when response.ok is false
StatusMessage(status) ==
  IF status >= 500 THEN "SERVER_ERROR"
  ELSE IF status = 404 THEN "ENDPOINT_NOT_FOUND"
  ELSE "HTTP_" \o ToString(status)

\* the error caught by processQuery's catch block, by outcome
ThrownError(o) ==
  CASE o = "abort"       -> [name |-> "AbortError", message |-> "The user aborted a request."]
    [] o \in StatusOutcomes -> [name |-> "Error", message |-> StatusMessage(StatusOf(o))]
    [] o = "failedfetch" -> [name |-> "TypeError", message |-> "Failed to fetch"]
    [] o = "badjson"     -> [name |-> "SyntaxError", message |-> "Unexpected token < in JSON"]

\* error.message.includes('Failed to fetch') || includes('NetworkError')
IsNetworkMessage(m) == m \in {"Failed to fetch", "NetworkError when attempting to fetch resource."}

\* the errorType chosen in the catch block
ErrorTypeOf(error) ==
  IF error.name = "AbortError" THEN "timeout"
  ELSE IF error.message = "SERVER_ERROR" THEN "server"
  ELSE IF IsNetworkMessage(error.message) THEN "network"
  ELSE "generic"

\* the errorMessage chosen in the catch block
ErrorMessageOf(error) ==
  IF error.name = "AbortError" THEN "Request timed out"
  ELSE IF error.message = "SERVER_ERROR" THEN "Server error occurred"
  ELSE IF IsNetworkMessage(error.message) THEN "Network connection failed"
  ELSE error.message

\* (variant) the retry condition with the bound off by one
ShouldRetryOffByOne(errorType, retryCount) ==
  (errorType = "timeout" \/ errorType = "network") /\ retryCount <= maxRetries

\* the retry condition of the catch block
ShouldRetry(errorType, retryCount) ==
  (errorType = "timeout" \/ errorType = "network") /\ retryCount < maxRetries

\* (variant) the _retryable flag computed like the retry condition
RetryableLikeRetry(errorType) ==
  errorType = "timeout" \/ errorType = "network"

\* the _retryable flag of a synthesized failure
Retryable(errorType) ==
  errorType = "timeout" \/ errorType = "network" \/ errorType = "server"

\* a JavaScript boolean as a value that compares with null and undefined
JsBool(b) == IF b THEN "true" ELSE "false"

\* the failure result returned from the catch block
FailureResult(errorType, errorMessage) ==
  [success |-> FALSE, error |-> errorMessage, errorType |-> errorType,
   retryable |-> JsBool(Retryable(errorType))]

\* the parsed body of a 2xx response, spread with _errorType: null
BodyResult(o) ==
  IF o = "ok"
  THEN [success |-> TRUE, error |-> Null, errorType |-> Null, retryable |-> Undefined]
  ELSE [success |-> FALSE, error |-> "x", errorType |-> Null, retryable |-> Undefined]

\* ---------------------------------------------------------------- the page
Elements == {1, 2}

\* a response element as the script reads it: trimmed text length, whether
\* the text begins with a preparatory phrase, the query extractQuery finds
\* for it, its data-testid / className, which of the adapter's response
\* selectors it matches ("primary", "fallback" or "none") and the element
\* it lies in (0 when that is none of Elements).  Elements are numbered in
\* document order, so a parent has a smaller number than its children.
\* For Meta's heuristic also: the div descendants and the child elements
\* it has besides the elements of Elements, and whether its text has
\* punctuation and more than 20 words.  For the injection also: the
\* .conversation-container it lies in (0 when it lies in none) and whether
\* a user query element lies in it, in a block that is none of Elements.
Elem(len, prep, query, cls) ==
  [len |-> len, prep |-> prep, query |-> query, cls |-> cls,
   matches |-> "primary", parent |-> 0,
   moreDivs |-> 0, moreChildren |-> 0, prose |-> TRUE,
   conv |-> 1, holdsQuery |-> TRUE]

\* the text lengths a response element goes through while it streams
TextLengths == {250, 300}

\* the pages the behaviours start from
Pages ==
  { <<Elem(250, FALSE, WhichIsBest, "standard-markdown"),
      Elem(300, FALSE, WhichIsBest, "standard-markdown")>>,
    <<Elem(250, FALSE, WhichIsBest, "standard-markdown"),
      Elem(250, FALSE, TellMeAJoke, "standard-markdown")>>,
    <<Elem(250, TRUE, WhichIsBest, "standard-markdown"),
      Elem(300, FALSE, NoQuery, "standard-markdown")>> }

VARIABLES
  vendor,                 \* vendorAdapter.name, fixed when the script loads
  enabled,                \* extensionEnabled of the settings getSettings returns
  stored,                 \* chrome.storage.sync holds an hxSettings value
  isDemoModeEnabled,      \* demo mode state, loaded by loadDemoMode
  pendingChange,          \* storage change notifications not yet delivered
  sweepDue,               \* the 60 s interval has elapsed, its callback has not run
  observer,               \* the mutation observer callbacks waiting out the
                          \* debounce delay: for each the ms waited so far
  queryCache,             \* Map<query, entry>: entry id, 0 when absent
  entries,                \* the cache entry objects ever created; age is
                          \* Date.now() - timestamp in minutes, counted while
                          \* the entry is in the map and up to AgeCap
  reqs,                   \* the api.processQuery invocations
  early,                  \* the processQueryEarly invocations
  dom,                    \* the response elements of the page
  processedResponses,     \* WeakSet of elements
  processedQueryContexts, \* Set of context keys
  panels,                 \* the panels injected
  batches,                \* the processAllResponses invocations
  currentQuery,           \* global reference for retry
  currentPanel,           \* global reference for retry / dismiss, 0 when null
  retryClicks,            \* hxRetry invocations so far
  firstBlock,             \* the first script block of the file: where its
                          \* init stands, and what it has called so far
  bodyText,               \* length of the text of document.body outside the
                          \* response elements and the panels
  fields,                 \* the input field nodes the page has mounted, the
                          \* last one being in the document if present: for
                          \* each whether it lies in a form and how many
                          \* keydown and submit listeners the script has added
  inputText,              \* the text of the input field as the user left it
  watcher,                \* setupInputListener: not called yet, waiting for
                          \* its retry timer, or done
  buttons,                \* the submit buttons the page has mounted: how many
                          \* of the button selectors each matches and how many
                          \* click listeners the script has added to it
  event                   \* the last event dispatched on the input field, its
                          \* form or a submit button

vars == <<vendor, enabled, stored, isDemoModeEnabled, pendingChange, sweepDue, observer, queryCache, entries, reqs,
          early, dom, processedResponses, processedQueryContexts, panels,
          batches, currentQuery, currentPanel, retryClicks, firstBlock,
          bodyText, fields, inputText, watcher, buttons, event>>

loadVars == <<vendor, firstBlock, bodyText>>
inputVars == <<fields, inputText, watcher, buttons, event>>
settingsVars == <<enabled, stored, isDemoModeEnabled, pendingChange>>
clockVars == <<sweepDue, observer>>
pageVars == <<dom, processedResponses, processedQueryContexts, batches>>
retryVars == <<currentQuery, currentPanel, retryClicks>>

LoadingContent == [kind |-> "loading", errorType |-> Null, retryButton |-> FALSE]

\* VENDOR_CONFIGS[key].name of the four adapters
Vendors == {"Claude", "Gemini", "Perplexity", "Meta"}

\* createVendorAdapter returns null: the hostname matches no vendor
NoVendor == "none"

\* The first script block when the file has been evaluated: its cleanup
\* interval is registered and its init awaits the health check.  The block
\* has no hostname check.
FirstBlockLoaded == [pc |-> "health", called |-> {"setInterval"}]

\* the vendor whose selectors the first block searches the page with
FirstBlockVendor == "Claude"

\* setupInputListener has not been called
WatcherNotStarted == [pc |-> "notStarted", timeout |-> 0]

\* no event has been dispatched
NoEvent == [type |-> "none", key |-> "", shiftKey |-> FALSE, target |-> 0]

\* the state the page is in when the responses of its dom appear, with the
\* given demo mode setting, after the script has recorded one of the given
\* sets of context keys for responses that are no longer on the page; keys
\* are the query texts the page's input and responses can give, texts the
\* lengths of the other text of the page
LoadedLater(v, pages, keys, demo, texts, contexts) ==
  /\ bodyText \in texts
  /\ vendor = v
  /\ enabled = TRUE
  /\ stored \in IF demo THEN {TRUE} ELSE BOOLEAN
  /\ isDemoModeEnabled = demo
  /\ pendingChange = <<>>
  /\ sweepDue = FALSE
  /\ observer = <<>>
  /\ queryCache = [q \in keys |-> 0]
  /\ entries = <<>>
  /\ reqs = <<>>
  /\ early = <<>>
  /\ dom \in pages
  /\ processedResponses = {}
  /\ processedQueryContexts \in contexts
  /\ panels = <<>>
  /\ batches = <<>>
  /\ currentQuery = NoQuery
  /\ currentPanel = 0
  /\ retryClicks = 0
  /\ firstBlock = FirstBlockLoaded
  /\ fields = <<>>
  /\ inputText = <<>>
  /\ watcher = WatcherNotStarted
  /\ buttons = <<>>
  /\ event = NoEvent

\* the state after the script has loaded for the given vendor on one of the
\* given pages: no context key has been recorded
LoadedPage(v, pages, keys, demo, texts) ==
  LoadedLater(v, pages, keys, demo, texts, {{}})

\* ... on a page that shows a conversation
Loaded(v, pages, keys, demo) ==
  LoadedPage(v, pages, keys, demo, {LandingPageLimit})

\* ... with demo mode off
LoadedOn(v, pages) == Loaded(v, pages, Queries, FALSE)

\* the state after the script has loaded on claude.ai
ScriptInit(pages) == LoadedOn("Claude", pages)

Init == ScriptInit(Pages)

\* a page with a single pair of responses
OnePage ==
  { <<Elem(250, FALSE, WhichIsBest, "standard-markdown"),
      Elem(250, FALSE, TellMeAJoke, "standard-markdown")>> }

\* ------------------------------------------------------------ panel content
\* updatePanelContent with createErrorContent: what the panel shows
Render(apiResponse) ==
  IF apiResponse.success /\ apiResponse.errorType \in {Null, Undefined}
  THEN [kind |-> "success", errorType |-> Null, retryButton |-> FALSE]
  ELSE [kind |-> "error",
        errorType |-> IF apiResponse.errorType = Null THEN "generic"
                      ELSE apiResponse.errorType,
        retryButton |-> (apiResponse.retryable = "true")]

\* ------------------------------------------------ api.processQuery (client)
\* a fresh invocation of api.processQuery(query): it awaits getSettings
NewRequest(query, caller) ==
  [query |-> query, retryCount |-> 0, pc |-> "settings", errorType |-> Null,
   calls |-> 0, delays |-> <<>>, outcomes |-> <<>>, errors |-> <<>>,
   result |-> NoResult, caller |-> caller, panel |-> 0]

\* getSettings resolved inside processQuery: the fetch is issued
ReqFetch(r) ==
  /\ reqs[r].pc = "settings"
  /\ reqs' = [reqs EXCEPT ![r].pc = "fetch", ![r].calls = @ + 1]
  /\ UNCHANGED <<loadVars, inputVars, settingsVars, clockVars, queryCache, entries, early, pageVars,
                 panels, retryVars>>

\* the attempt that ended with outcome o is followed by another attempt
Retries(o, retryCount) ==
  IF o \in {"ok", "okfail"} THEN FALSE
  ELSE ShouldRetry(ErrorTypeOf(ThrownError(o)), retryCount)

\* the fetch failed with a retried kind: wait 1000 * (retryCount + 1) ms
ReqBackoff(r, o) ==
  /\ reqs[r].pc = "fetch"
  /\ Retries(o, reqs[r].retryCount)
  /\ reqs' = [reqs EXCEPT ![r].pc = "backoff",
                          ![r].errorType = ErrorTypeOf(ThrownError(o)),
                          ![r].outcomes = Append(@, o),
                          ![r].errors = Append(@, ErrorTypeOf(ThrownError(o))),
                          ![r].delays = Append(@, BackoffUnit * (reqs[r].retryCount + 1))]
  /\ UNCHANGED <<loadVars, inputVars, settingsVars, clockVars, queryCache, entries, early, pageVars,
                 panels, retryVars>>

\* the backoff timer fired: processQuery(query, retryCount + 1)
ReqRetry(r) ==
  /\ reqs[r].pc = "backoff"
  /\ reqs' = [reqs EXCEPT ![r].pc = "settings", ![r].retryCount = @ + 1,
                          ![r].errorType = Null]
  /\ UNCHANGED <<loadVars, inputVars, settingsVars, clockVars, queryCache, entries, early, pageVars,
                 panels, retryVars>>

\* the value processQuery resolves with when its fetch ends with outcome o
FinalResult(o) ==
  IF o \in {"ok", "okfail"} THEN BodyResult(o)
  ELSE FailureResult(ErrorTypeOf(ThrownError(o)), ErrorMessageOf(ThrownError(o)))

\* a retry button is on the page
RetryButtonVisible ==
  \E p \in DOMAIN panels : panels[p].content.retryButton /\ ~panels[p].dismissed

\* (variant) the panel whose retry button was clicked
PanelOfButton ==
  IF RetryButtonVisible
  THEN CHOOSE p \in DOMAIN panels :
         panels[p].content.retryButton /\ ~panels[p].dismissed
  ELSE currentPanel

\* the panel hxRetry works on: the global currentPanel, read when the
\* handler runs and again when its request has settled
RetryPanel == currentPanel

\* (variant) only a direct call of the population timer is awaited
AwaitsDirectCall(p, r) ==
  panels[p].pc = "awaitApi" /\ panels[p].req = r

\* the population timer of panel p is suspended on the promise of request r:
\* on cacheEntry.promise, or on its own api.processQuery call
Awaits(p, r) ==
  \/ panels[p].pc = "awaitEntry" /\ entries[panels[p].entry].promise = r
  \/ panels[p].pc = "awaitApi" /\ panels[p].req = r

\* (variant) the result is stored only in an entry that is still the value
\* of a key of the cache
ContinuedInCache(r, res) ==
  [e \in DOMAIN entries |->
     IF entries[e].promise = r /\ \E q \in DOMAIN queryCache : queryCache[q] = e
     THEN [entries[e] EXCEPT !.result = res]
     ELSE entries[e]]

\* the continuation of processQueryEarly after await apiPromise: the result
\* is stored in the entry the call created for the request, which the
\* continuation holds by reference, in the cache or not
Continued(r, res) ==
  [e \in DOMAIN entries |->
     IF entries[e].promise = r THEN [entries[e] EXCEPT !.result = res]
     ELSE entries[e]]

\* (variant) a population timer resumes before that continuation has run
EntriesBeforeContinuation(r, res) == entries

\* the cache entries when a population timer awaiting the promise of r
\* resumes.  processQueryEarly awaits the promise in the call that creates
\* the entry, before any timer can find it, and the reactions of a promise
\* run in the order they were registered: the continuation has run
EntriesAtResume(r, res) == Continued(r, res)

\* apiResponse of the population timer of p when it resumes:
\* cacheEntry.result, or the value of its own api.processQuery call
Resumed(p, r, res) ==
  IF panels[p].pc = "awaitEntry" THEN EntriesAtResume(r, res)[panels[p].entry].result
  ELSE res

\* updatePanelContent(hxPanel, apiResponse) inside the timer's try block: a
\* null apiResponse throws, and the catch block renders a generic failure
Populated(apiResponse) ==
  IF apiResponse = NoResult
  THEN Render([success |-> FALSE, error |-> "TypeError", errorType |-> "generic",
               retryable |-> "true"])
  ELSE Render(apiResponse)

\* The request settles.  The continuations awaiting its promise run in the
\* same turn (promise reactions are microtasks, in registration order):
\* processQueryEarly stores the result in its entry, then every population
\* timer awaiting that entry, the population timer awaiting a direct call, or
\* hxRetry renders the result.
ReqSettle(r, o) ==
  /\ reqs[r].pc = "fetch"
  /\ ~Retries(o, reqs[r].retryCount)
  /\ LET res == FinalResult(o)
         c == reqs[r].caller
     IN
     /\ reqs' = [reqs EXCEPT ![r].pc = "done", ![r].result = res,
                   ![r].outcomes = Append(@, o),
                   ![r].errors = IF o \in {"ok", "okfail"} THEN @
                                 ELSE Append(@, ErrorTypeOf(ThrownError(o))),
                   ![r].errorType = IF o \in {"ok", "okfail"} THEN Null
                                    ELSE ErrorTypeOf(ThrownError(o))]
     /\ entries' = Continued(r, res)
     /\ early' = [i \in DOMAIN early |->
                    IF early[i].pc = "awaitApi" /\ entries[early[i].entry].promise = r
                    THEN [early[i] EXCEPT !.pc = "done", !.ret = early[i].entry]
                    ELSE early[i]]
     /\ panels' = [p \in DOMAIN panels |->
                     IF Awaits(p, r)
                     THEN [panels[p] EXCEPT !.pc = "populated",
                                            !.content = Populated(Resumed(p, r, res))]
                     ELSE IF c = "retry" /\ p = RetryPanel
                     THEN [panels[p] EXCEPT !.content = Render(res)]
                     ELSE panels[p]]
  /\ UNCHANGED <<loadVars, inputVars, settingsVars, clockVars, queryCache, pageVars, retryVars>>

\* ------------------------------------------------------- processQueryEarly
\* the input listener or a submit button calls processQueryEarly(query);
\* the call awaits getSettings
ProcessQueryEarly(q) ==
  /\ Len(early) < MaxEarly
  /\ early' = Append(early, [query |-> q, pc |-> "settings", entry |-> 0, ret |-> Null])
  /\ UNCHANGED <<loadVars, inputVars, settingsVars, clockVars, queryCache, entries, reqs, pageVars,
                 panels, retryVars>>

\* --------------------------------------------------------- input monitoring
\* the texts the user leaves in the input field: a query, the query
\* with blanks around it, ten characters, ten characters with blanks around
\* them, eleven characters
TenChars == <<"0", "1", "2", "3", "4", "5", "6", "7", "8", "9">>
InputTexts ==
  { WhichIsBest, <<" ", " ">> \o WhichIsBest \o <<" ">>,
    TenChars, <<" ">> \o TenChars \o <<" ", " ">>, TenChars \o <<"x">> }

\* the queries these texts give
InputQueries == {WhichIsBest, TenChars \o <<"x">>}

\* vendorAdapter.findInputField(): the input field in the document, 0 (null)
\* when there is none
findInputField ==
  IF fields # <<>> /\ fields[Len(fields)].present THEN Len(fields) ELSE 0

\* the page mounts an input field, in a form or not, in the place of the
\* one it had
FieldMounts(inForm) ==
  /\ Len(fields) < MaxFields
  /\ fields' = Append([f \in DOMAIN fields |-> [fields[f] EXCEPT !.present = FALSE]],
                      [present |-> TRUE, inForm |-> inForm, keydown |-> 0, submit |-> 0])
  /\ inputText' = <<>>
  /\ UNCHANGED <<loadVars, watcher, buttons, event, settingsVars, clockVars, queryCache,
                 entries, reqs, early, pageVars, panels, retryVars>>

\* the page removes its input field
FieldRemoved ==
  /\ findInputField # 0
  /\ fields' = [fields EXCEPT ![findInputField].present = FALSE]
  /\ inputText' = <<>>
  /\ UNCHANGED <<loadVars, watcher, buttons, event, settingsVars, clockVars, queryCache,
                 entries, reqs, early, pageVars, panels, retryVars>>

\* the user edits the text of the input field
Types(text) ==
  /\ findInputField # 0
  /\ text # inputText
  /\ inputText' = text
  /\ UNCHANGED <<loadVars, fields, watcher, buttons, event, settingsVars, clockVars,
                 queryCache, entries, reqs, early, pageVars, panels, retryVars>>

\* the page mounts a submit button that matches so many button selectors
ButtonMounts(selectors) ==
  /\ Len(buttons) < MaxButtons
  /\ buttons' = Append(buttons, [selectors |-> selectors, click |-> 0])
  /\ UNCHANGED <<loadVars, fields, inputText, watcher, event, settingsVars, clockVars,
                 queryCache, entries, reqs, early, pageVars, panels, retryVars>>

\* (variant) setupInputListener looking at the field it saw first
SetupFirstField ==
  IF fields = <<>>
  THEN /\ watcher' = [pc |-> "waiting", timeout |-> PollInterval]
       /\ UNCHANGED fields
  ELSE /\ fields' = [fields EXCEPT ![1].keydown = @ + 1,
                                   ![1].submit = IF fields[1].inForm THEN @ + 1 ELSE @]
       /\ watcher' = [pc |-> "attached", timeout |-> 0]

\* setupInputListener: without an input field, try again in 1000 ms; with
\* one, add handleSubmit as keydown listener to it and as submit listener
\* to the form it lies in
setupInputListener ==
  IF findInputField = 0
  THEN /\ watcher' = [pc |-> "waiting", timeout |-> PollInterval]
       /\ UNCHANGED fields
  ELSE /\ fields' = [fields EXCEPT
                       ![findInputField].keydown = @ + 1,
                       ![findInputField].submit =
                          IF fields[findInputField].inForm THEN @ + 1 ELSE @]
       /\ watcher' = [pc |-> "attached", timeout |-> 0]

\* setupButtonListener: a click listener on every element of
\* findSubmitButtons(), which holds a button once per selector it matches
setupButtonListener ==
  buttons' = [b \in DOMAIN buttons |->
                [buttons[b] EXCEPT !.click = @ + buttons[b].selectors]]

\* setupInputMonitoring(), called once by init
setupInputMonitoring ==
  /\ watcher.pc = "notStarted"
  /\ setupInputListener
  /\ setupButtonListener
  /\ UNCHANGED <<loadVars, inputText, event, settingsVars, clockVars, queryCache,
                 entries, reqs, early, pageVars, panels, retryVars>>

\* the retry timer of setupInputListener fires
InputPoll ==
  /\ watcher.pc = "waiting"
  /\ setupInputListener
  /\ UNCHANGED <<loadVars, inputText, buttons, event, settingsVars, clockVars, queryCache,
                 entries, reqs, early, pageVars, panels, retryVars>>

\* (variant) handleSubmit without the Shift test
PassesKeyTestOnly(type, key, shiftKey) ==
  ~(type = "keydown" /\ key # "Enter")

\* handleSubmit gets past its two early returns: not a keydown of another
\* key than Enter, not a keydown with Shift
PassesKeyTests(type, key, shiftKey) ==
  /\ ~(type = "keydown" /\ key # "Enter")
  /\ ~(type = "keydown" /\ shiftKey)

\* query.trim().length > 10
LongEnough(text) == Len(trim(text)) > MinQueryLength

\* early after n more calls of processQueryEarly(query), each up to its
\* await of getSettings
EarlyCalls(n, query) ==
  early \o [i \in 1..n |-> [query |-> query, pc |-> "settings", entry |-> 0, ret |-> Null]]

\* an event on the input field or its form: every handleSubmit listener
\* added for that event type runs
Dispatch(type, key, shiftKey, listeners) ==
  LET calls == IF PassesKeyTests(type, key, shiftKey) /\ LongEnough(inputText)
               THEN listeners ELSE 0
  IN /\ Len(early) + calls <= MaxEarly
     /\ early' = EarlyCalls(calls, trim(inputText))
     /\ event' = [type |-> type, key |-> key, shiftKey |-> shiftKey,
                  target |-> findInputField]
     /\ UNCHANGED <<loadVars, fields, inputText, watcher, buttons, settingsVars, clockVars,
                    queryCache, entries, reqs, pageVars, panels, retryVars>>

\* the user presses a key in the input field
KeyDown(key, shiftKey) ==
  /\ findInputField # 0
  /\ Dispatch("keydown", key, shiftKey, fields[findInputField].keydown)

\* the form of the input field is submitted
FormSubmit ==
  /\ findInputField # 0
  /\ fields[findInputField].inForm
  /\ Dispatch("submit", "", FALSE, fields[findInputField].submit)

\* the processQueryEarly calls a click on button b makes: one per click
\* listener, when there is an input field with a long enough text
ClickCalls(b) ==
  IF findInputField # 0 /\ LongEnough(inputText) THEN buttons[b].click ELSE 0

\* the user clicks submit button b
Click(b) ==
  /\ Len(early) + ClickCalls(b) <= MaxEarly
  /\ early' = EarlyCalls(ClickCalls(b), trim(inputText))
  /\ event' = [type |-> "click", key |-> "", shiftKey |-> FALSE, target |-> b]
  /\ UNCHANGED <<loadVars, fields, inputText, watcher, buttons, settingsVars, clockVars,
                 queryCache, entries, reqs, pageVars, panels, retryVars>>

\* settings.extensionEnabled is false: return null
EarlyDisabled(i) ==
  /\ early[i].pc = "settings"
  /\ ~enabled
  /\ early' = [early EXCEPT ![i].pc = "done", ![i].ret = 0]
  /\ UNCHANGED <<loadVars, inputVars, settingsVars, clockVars, queryCache, entries, reqs, pageVars,
                 panels, retryVars>>

\* queryCache.has(query): return the entry
EarlyCached(i) ==
  /\ early[i].pc = "settings"
  /\ enabled
  /\ queryCache[early[i].query] # 0
  /\ early' = [early EXCEPT ![i].pc = "done", ![i].entry = queryCache[early[i].query],
                            ![i].ret = queryCache[early[i].query]]
  /\ UNCHANGED <<loadVars, inputVars, settingsVars, clockVars, queryCache, entries, reqs, pageVars,
                 panels, retryVars>>

\* demo mode intercept: the query matches a demo question; the entry holds
\* the pre-loaded response and a resolved promise (promise 0: no request)
EarlyDemo(i) ==
  /\ early[i].pc = "settings"
  /\ enabled
  /\ queryCache[early[i].query] = 0
  /\ isDemoModeEnabled
  /\ findDemoQuestion(early[i].query) # 0
  /\ entries' = Append(entries, [query |-> early[i].query, promise |-> 0,
                                 result |-> DemoResponse(findDemoQuestion(early[i].query)),
                                 age |-> 0])
  /\ queryCache' = [queryCache EXCEPT ![early[i].query] = Len(entries) + 1]
  /\ early' = [early EXCEPT ![i].pc = "done", ![i].entry = Len(entries) + 1,
                            ![i].ret = Len(entries) + 1]
  /\ UNCHANGED <<loadVars, inputVars, settingsVars, clockVars, reqs, pageVars, panels, retryVars>>

\* normal flow: start the API call, store the entry, await the promise
EarlyStart(i) ==
  /\ early[i].pc = "settings"
  /\ enabled
  /\ queryCache[early[i].query] = 0
  /\ isDemoModeEnabled => findDemoQuestion(early[i].query) = 0
  /\ Len(reqs) < MaxReq
  /\ reqs' = Append(reqs, NewRequest(early[i].query, "early"))
  /\ entries' = Append(entries, [query |-> early[i].query, promise |-> Len(reqs) + 1,
                                 result |-> NoResult, age |-> 0])
  /\ queryCache' = [queryCache EXCEPT ![early[i].query] = Len(entries) + 1]
  /\ early' = [early EXCEPT ![i].pc = "awaitApi", ![i].entry = Len(entries) + 1]
  /\ UNCHANGED <<loadVars, inputVars, settingsVars, clockVars, pageVars, panels, retryVars>>

\* ------------------------------------------------- settings and the sweep
\* the popup saves hxSettings: the first value ever stored, or one with the
\* extensionEnabled toggle changed.  The notification carries
\* oldValue?.extensionEnabled (falsy while nothing was stored) and
\* newValue?.extensionEnabled.
StorageSet(v) ==
  /\ stored => enabled # v
  /\ Len(pendingChange) < MaxPending
  /\ enabled' = v
  /\ stored' = TRUE
  /\ pendingChange' = Append(pendingChange,
                              [oldValue |-> (stored /\ enabled), newValue |-> v])
  /\ UNCHANGED <<loadVars, inputVars, isDemoModeEnabled, clockVars, queryCache, entries, reqs,
                 early, pageVars, panels, retryVars>>

\* chrome.storage.onChanged listener
OnChanged ==
  /\ pendingChange # <<>>
  /\ pendingChange' = Tail(pendingChange)
  /\ queryCache' = IF Head(pendingChange).oldValue /\ ~Head(pendingChange).newValue
                   THEN [q \in DOMAIN queryCache |-> 0]
                   ELSE queryCache
  /\ UNCHANGED <<loadVars, inputVars, enabled, stored, isDemoModeEnabled, clockVars, entries, reqs, early, pageVars,
                 panels, retryVars>>

\* ages past the threshold are not told apart
AgeCap == FiveMinutes + 1

\* the entry object is the value of some key of the map
InCache(e) == \E q \in DOMAIN queryCache : queryCache[q] = e

\* one minute (the sweep interval) passes; the interval callback becomes due
Tick ==
  /\ ~sweepDue
  /\ sweepDue' = TRUE
  /\ entries' = [e \in DOMAIN entries |->
                   IF InCache(e) /\ entries[e].age < AgeCap
                   THEN [entries[e] EXCEPT !.age = @ + 1]
                   ELSE entries[e]]
  /\ UNCHANGED <<loadVars, inputVars, settingsVars, observer, queryCache, reqs, early,
                 pageVars, panels, retryVars>>

\* (variant) the age test with the threshold included
ExpiredAtThreshold(entry) == entry.age >= FiveMinutes

\* data.timestamp < Date.now() - 5 * 60 * 1000
Expired(entry) == entry.age > FiveMinutes

\* the setInterval callback
Sweep ==
  /\ sweepDue
  /\ sweepDue' = FALSE
  /\ processedQueryContexts' =
       IF Cardinality(processedQueryContexts) > ContextLimit
       THEN {} ELSE processedQueryContexts
  /\ queryCache' = [q \in DOMAIN queryCache |->
                      IF queryCache[q] # 0 /\ Expired(entries[queryCache[q]])
                      THEN 0 ELSE queryCache[q]]
  /\ UNCHANGED <<loadVars, inputVars, settingsVars, observer, entries, reqs, early, dom,
                 processedResponses, batches, panels, retryVars>>

\* ------------------------------------------------------ response processing
RECURSIVE AncestorsOrSelf(_)
\* the element and the elements it lies in
AncestorsOrSelf(e) ==
  IF dom[e].parent = 0 THEN {e}
  ELSE {e} \cup AncestorsOrSelf(dom[e].parent)

\* element.closest('.hx-response-container'): the element, or one it lies
\* in, was moved into an injected container
InContainer(e) ==
  \E p \in DOMAIN panels : panels[p].wrapped \in AncestorsOrSelf(e)

\* element.querySelector('.hx-response-panel'): a container, with its panel,
\* was put in the place of an element that lies in this one
ContainsPanel(e) ==
  \E p \in DOMAIN panels :
    panels[p].wrapped # e /\ e \in AncestorsOrSelf(panels[p].wrapped)

\* (variant) validation by the container test alone
ValidateByContainer(e) == ~InContainer(e)

\* VendorAdapter.validateResponse: not inside or containing a panel, not
\* inside an injected container.  (No element of the page lies inside a
\* panel: a panel holds only what the script renders.)
BaseValidate(e) == ~ContainsPanel(e) /\ ~InContainer(e)

\* this.validateResponse of the adapter in use: the overrides call the base
\* validation first; of their further tests the length tests are kept
validateResponse(e) ==
  /\ BaseValidate(e)
  /\ vendor = "Perplexity" => dom[e].len >= 50
  /\ vendor = "Meta" => dom[e].len >= 200 /\ dom[e].prose

\* the elements findResponseContainers keeps
IsCandidate(e) ==
  /\ e \notin processedResponses
  /\ validateResponse(e)
  /\ dom[e].len > minResponseLength

RECURSIVE InDocumentOrder(_)
\* the elements of S as an array in document order
InDocumentOrder(S) ==
  IF S = {} THEN <<>>
  ELSE LET first == CHOOSE e \in S : \A d \in S : e <= d
       IN <<first>> \o InDocumentOrder(S \ {first})

\* the elements matching a response selector that are kept
Matching(kind) == {e \in Elements : dom[e].matches = kind /\ IsCandidate(e)}

\* VendorAdapter.findResponseContainers: the primary selector, and the
\* fallback selectors when the primary one gave nothing
BaseContainers ==
  IF Matching("primary") # {} THEN InDocumentOrder(Matching("primary"))
  ELSE InDocumentOrder(Matching("fallback"))

\* the elements of Elements that lie in e
Descendants(e) == {d \in Elements : d # e /\ e \in AncestorsOrSelf(d)}

\* div.querySelectorAll('div').length
childDivCount(e) == dom[e].moreDivs + Cardinality(Descendants(e))

\* div.children.length
directChildren(e) ==
  dom[e].moreChildren + Cardinality({c \in Elements : dom[c].parent = e})

\* the "response score" of the heuristic
Score(e) ==
    (IF dom[e].len > 300 /\ dom[e].len < 15000 THEN 2 ELSE 0)
  + (IF childDivCount(e) > 2 /\ childDivCount(e) < 50 THEN 1 ELSE 0)
  + (IF directChildren(e) > 1 /\ directChildren(e) < 15 THEN 1 ELSE 0)
  + (IF dom[e].prose THEN 2 ELSE 0)
  + (IF childDivCount(e) < 100 THEN 1 ELSE 0)

\* the divs the heuristic of MetaAdapter.findResponseContainers keeps
HeuristicCandidates ==
  {e \in Elements : /\ ~InContainer(e)
                    /\ dom[e].len >= minResponseLength
                    /\ Score(e) >= 3
                    /\ e \notin processedResponses
                    /\ validateResponse(e)}

\* document.body.textContent.length, the panels' text left out
bodyTextLength ==
  LET F[n \in 0..Cardinality(Elements)] ==
        IF n = 0 THEN bodyText
        ELSE F[n - 1] + (IF dom[n].parent = 0 THEN dom[n].len ELSE 0)
  IN F[Cardinality(Elements)]

\* (variant) the candidate with the longest text
HeuristicLongest(C) ==
  CHOOSE e \in C :
    \A d \in C : dom[e].len > dom[d].len \/ (dom[e].len = dom[d].len /\ e <= d)

\* the first candidate after the sort by score, then by text length (the
\* sort is stable: equal candidates stay in document order); with
\* maxResponses = 1 the loop over the sorted candidates keeps it and stops
HeuristicBest(C) ==
  CHOOSE e \in C :
    \A d \in C :
      \/ Score(e) > Score(d)
      \/ Score(e) = Score(d) /\ dom[e].len > dom[d].len
      \/ Score(e) = Score(d) /\ dom[e].len = dom[d].len /\ e <= d

\* MetaAdapter.findResponseContainers: nothing on a landing page; the base
\* search; else the best candidate of the heuristic
MetaContainers ==
  IF bodyTextLength <= LandingPageLimit THEN <<>>
  ELSE IF BaseContainers # <<>> THEN BaseContainers
  ELSE IF HeuristicCandidates = {} THEN <<>>
  ELSE <<HeuristicBest(HeuristicCandidates)>>

\* vendorAdapter.findResponseContainers()
findResponseContainers ==
  IF vendor = "Meta" THEN MetaContainers ELSE BaseContainers

\* the elements of Elements that lie directly in e
Children(e) == {c \in Elements : dom[c].parent = e}

\* the nearest primary-selector element among e and the elements it lies
\* in, 0 when there is none
ClosestPrimary(e) ==
  LET P == {a \in AncestorsOrSelf(e) : dom[a].matches = "primary"}
  IN IF P = {} THEN 0 ELSE CHOOSE a \in P : \A d \in P : d <= a

\* conversationContainer.querySelector('model-response'): the first
\* primary-selector element of the conversation container e lies in, 0 when
\* there is none
FirstModelResponse(e) ==
  LET M == {a \in Elements : dom[a].matches = "primary" /\ dom[a].conv = dom[e].conv}
  IN IF M = {} THEN 0 ELSE CHOOSE a \in M : \A d \in M : a <= d

\* (variant) the model-response search without the conversation container
EnclosingModelResponse(e) ==
  IF dom[e].conv = 0 THEN 0 ELSE ClosestPrimary(e)

\* GeminiAdapter.injectPanel, the search for modelResponse: the nearest
\* model-response the element is or lies in, else the first one of its
\* conversation container; 0 (use the default strategy) when the element
\* lies in no conversation container or none is found
GeminiModelResponse(e) ==
  IF dom[e].conv = 0 THEN 0
  ELSE IF ClosestPrimary(e) # 0 THEN ClosestPrimary(e)
  ELSE FirstModelResponse(e)

\* MetaAdapter.injectPanel, the search for the response content: the first
\* child with more than 100 characters of an element that holds the user
\* query, 0 (wrap the element itself) when there is none
MetaContentChild(e) ==
  LET C == {c \in Children(e) : dom[c].len > 100}
  IN IF ~dom[e].holdsQuery \/ C = {} THEN 0
     ELSE CHOOSE c \in C : \A d \in C : c <= d

\* vendorAdapter.injectPanel: the element the injected container takes the
\* place of and encloses.  The base adapter wraps the response element;
\* Gemini wraps the model-response it finds; Meta wraps the first
\* substantial child when the element holds the user query on top of the
\* response content.
injectPanel(e) ==
  CASE vendor = "Gemini" ->
         IF GeminiModelResponse(e) # 0 THEN GeminiModelResponse(e) ELSE e
    [] vendor = "Meta" ->
         IF MetaContentChild(e) # 0 THEN MetaContentChild(e) ELSE e
    [] OTHER -> e

\* ------------------------------------------------------------- the document
\* The document as a tree: each node with the sequence of its child nodes.
\* Node 0 stands for the rest of the page, the elements of Elements are
\* nodes 1..Len(dom), and the container and the panel of the k-th
\* injection are the two nodes created for it.
containerNode(k) == Len(dom) + 2 * k - 1
panelNode(k) == Len(dom) + 2 * k

\* the document before any injection
PageTree == [n \in 0..Len(dom) |-> InDocumentOrder(Children(n))]

\* node.parentNode, -1 for a node that is not in the document
parentNode(c, n) ==
  IF \E q \in DOMAIN c : \E i \in DOMAIN c[q] : c[q][i] = n
  THEN CHOOSE q \in DOMAIN c : \E i \in DOMAIN c[q] : c[q][i] = n
  ELSE -1

IndexOf(s, n) == CHOOSE i \in DOMAIN s : s[i] = n

\* a node is taken out of the place it has, if it has one
Detached(c, n) == [q \in DOMAIN c |-> SelectSeq(c[q], LAMBDA x : x # n)]

\* document.createElement('div'): a node without children, not in the document
createElement(c, n) ==
  [m \in DOMAIN c \cup {n} |-> IF m \in DOMAIN c THEN c[m] ELSE <<>>]

\* parent.insertBefore(node, ref)
insertBefore(c, parent, node, ref) ==
  LET d == Detached(c, node)
      i == IndexOf(d[parent], ref)
  IN [d EXCEPT ![parent] = SubSeq(@, 1, i - 1) \o <<node>> \o SubSeq(@, i, Len(@))]

\* ref.after(node)
after(c, ref, node) ==
  LET d == Detached(c, node)
      parent == parentNode(d, ref)
      i == IndexOf(d[parent], ref)
  IN [d EXCEPT ![parent] = SubSeq(@, 1, i) \o <<node>> \o SubSeq(@, i + 1, Len(@))]

\* parent.appendChild(node): the node is moved to the end of parent
appendChild(c, parent, node) ==
  [Detached(c, node) EXCEPT ![parent] = Append(@, node)]

\* VendorAdapter.injectPanel, and MetaAdapter.injectPanel for the content
\* child or the element: insert the container before the element, move
\* the element and the panel into it
DefaultStrategy(c, el, container, panel) ==
  appendChild(appendChild(insertBefore(c, parentNode(c, el), container, el),
                          container, el),
              container, panel)

\* GeminiAdapter.injectPanel with a model-response: insert the container
\* after it, move it and the panel into the container
GeminiStrategy(c, modelResponse, container, panel) ==
  appendChild(appendChild(after(c, modelResponse, container),
                          container, modelResponse),
              container, panel)

\* the document c after the k-th injection
Injected(c, k) ==
  LET created == createElement(createElement(c, containerNode(k)), panelNode(k))
  IN IF vendor = "Gemini" /\ GeminiModelResponse(panels[k].element) # 0
     THEN GeminiStrategy(created, panels[k].wrapped, containerNode(k), panelNode(k))
     ELSE DefaultStrategy(created, panels[k].wrapped, containerNode(k), panelNode(k))

RECURSIVE DocumentAfter(_)
\* the document after the first k injections
DocumentAfter(k) ==
  IF k = 0 THEN PageTree ELSE Injected(DocumentAfter(k - 1), k)

\* the nodes that are injected containers
Containers == {containerNode(k) : k \in DOMAIN panels}

RECURSIVE closest(_, _)
\* node.closest('.hx-response-container'): the node or its nearest ancestor
\* that is an injected container, -1 when there is none
closest(c, n) ==
  IF n \in Containers THEN n
  ELSE IF parentNode(c, n) = -1 THEN -1
  ELSE closest(c, parentNode(c, n))

\* node.remove(): the node, with all it holds, leaves the document
remove(c, n) == Detached(c, n)

RECURSIVE isConnected(_, _)
\* node.isConnected: the node is the document's root or lies below it
isConnected(c, n) ==
  \/ n = 0
  \/ /\ parentNode(c, n) # -1
     /\ isConnected(c, parentNode(c, n))

\* the timer of hxDismiss for panel k has run on document c: the container
\* the panel lies in has been removed
Dismissed(c, k) ==
  IF panels[k].dismissed /\ closest(c, panelNode(k)) # -1
  THEN remove(c, closest(c, panelNode(k)))
  ELSE c

RECURSIVE DismissedUpTo(_)
\* the document with the dismiss timers of the first k panels run
DismissedUpTo(k) ==
  IF k = 0 THEN DocumentAfter(Len(panels)) ELSE Dismissed(DismissedUpTo(k - 1), k)

\* the document as it is: every injection made, every dismissed container
\* removed
Document == DismissedUpTo(Len(panels))

\* (variant) the length test alone, without the preparatory phrases
SubstantialByLength(el) == el.len >= MinSubstantialLength

\* isSubstantialResponse
isSubstantialResponse(el) ==
  /\ el.len >= MinCandidateLength
  /\ ~el.prep
  /\ el.len >= MinSubstantialLength

\* createQueryContext: `${query}|${responseLength}|${elementId}`
createQueryContext(query, el) == <<query, el.len, el.cls>>

\* (variant) the guard of processResponse left out
NeverProcessed(e) == FALSE

\* (variant) the guard keyed on the element's present content, not on the
\* element
ProcessedUnchanged(e) ==
  /\ e \in processedResponses
  /\ createQueryContext(dom[e].query, dom[e]) \in processedQueryContexts

\* processedResponses.has(responseElement), the guard of processResponse
AlreadyProcessed(e) == e \in processedResponses

\* (variant) only the enabled test ends the call early
ReturnsIfDisabled(e) == ~enabled

\* (variant) only the membership test ends the call early
ReturnsIfSeen(e) == AlreadyProcessed(e)

\* processResponse returns before it marks the element: enrichment is
\* disabled (tested first, when getSettings has resolved), or the element
\* is in processedResponses
ReturnsUnmarked(e) == ~enabled \/ AlreadyProcessed(e)

\* processAllResponses is called (by init or by the mutation observer after
\* its debounce delay): it takes the container list and calls processResponse
\* on the first one, which awaits getSettings
ProcessAllResponses ==
  /\ Len(batches) < MaxBatch
  /\ findResponseContainers # <<>>
  /\ batches' = Append(batches, [responses |-> findResponseContainers, i |-> 1,
                                 pc |-> "settings"])
  /\ UNCHANGED <<loadVars, inputVars, settingsVars, clockVars, queryCache, entries, reqs, early, dom,
                 processedResponses, processedQueryContexts, panels, retryVars>>

\* (variant) the current panel set only while there is none
PanelKeptCurrent == IF currentPanel = 0 THEN Len(panels) + 1 ELSE currentPanel

\* hxPanel of a processResponse call: the panel createHundredXPanel makes,
\* the next one of the panels ever injected
hxPanel == Len(panels) + 1

\* processResponse(responses[i]) from the point getSettings has resolved to
\* its return; the batch then waits the pacing delay
ProcessResponse(b) ==
  /\ batches[b].pc = "settings"
  /\ batches' = [batches EXCEPT ![b].pc = "pace"]
  /\ LET e == batches[b].responses[batches[b].i]
         query == dom[e].query
         ctx == createQueryContext(query, dom[e])
     IN
     IF ReturnsUnmarked(e)
     THEN UNCHANGED <<processedResponses, processedQueryContexts, panels, retryVars>>
     ELSE
       /\ processedResponses' = processedResponses \cup {e}
       /\ IF ~isSubstantialResponse(dom[e]) \/ query = NoQuery
          THEN UNCHANGED <<processedQueryContexts, panels, retryVars>>
          ELSE IF ctx \in processedQueryContexts
          THEN UNCHANGED <<processedQueryContexts, panels, retryVars>>
          ELSE
            /\ processedQueryContexts' = processedQueryContexts \cup {ctx}
            /\ panels' = Append(panels, [element |-> e, wrapped |-> injectPanel(e),
                                         query |-> query,
                                         pc |-> "timer", entry |-> 0, req |-> 0,
                                         content |-> LoadingContent,
                                         dismissed |-> FALSE, awaited |-> FALSE])
            /\ currentQuery' = query
            /\ currentPanel' = hxPanel
            /\ UNCHANGED retryClicks
  /\ UNCHANGED <<loadVars, inputVars, settingsVars, clockVars, queryCache, entries, reqs, early, dom>>

\* the mutation observer is called with a batch of mutations that adds an
\* element node with more than 20 characters of text: the callback starts
\* waiting timing.debounceDelay.  (A callback that is due runs before any
\* further batch is delivered.)
Mutated ==
  /\ Len(observer) < MaxObserved
  /\ \A k \in DOMAIN observer : observer[k] < debounceDelay
  /\ observer' = Append(observer, 0)
  /\ UNCHANGED <<loadVars, inputVars, settingsVars, sweepDue, queryCache, entries, reqs, early,
                 pageVars, panels, retryVars>>

\* TimeStep ms pass while no waiting callback is due
TimePasses ==
  /\ observer # <<>>
  /\ \A k \in DOMAIN observer : observer[k] < debounceDelay
  /\ observer' = [k \in DOMAIN observer |-> observer[k] + TimeStep]
  /\ UNCHANGED <<loadVars, inputVars, settingsVars, sweepDue, queryCache, entries, reqs, early,
                 pageVars, panels, retryVars>>

\* sequence s without its k-th element
Remove(s, k) == [j \in 1..(Len(s) - 1) |-> IF j < k THEN s[j] ELSE s[j + 1]]

\* the debounce delay of a waiting observer callback has elapsed: it calls
\* processAllResponses, which returns at once when it finds no container
ObserverRun(k) ==
  /\ observer[k] >= debounceDelay
  /\ observer' = Remove(observer, k)
  /\ IF findResponseContainers = <<>>
     THEN UNCHANGED batches
     ELSE /\ Len(batches) < MaxBatch
          /\ batches' = Append(batches, [responses |-> findResponseContainers,
                                         i |-> 1, pc |-> "settings"])
  /\ UNCHANGED <<loadVars, inputVars, settingsVars, sweepDue, queryCache, entries, reqs, early,
                 dom, processedResponses, processedQueryContexts, panels, retryVars>>

\* the pacing delay of processAllResponses elapsed: processResponse on the
\* next response, or the invocation returns
BatchNext(b) ==
  /\ batches[b].pc = "pace"
  /\ batches' = IF batches[b].i < Len(batches[b].responses)
                THEN [batches EXCEPT ![b].i = @ + 1, ![b].pc = "settings"]
                ELSE Remove(batches, b)
  /\ UNCHANGED <<loadVars, inputVars, settingsVars, clockVars, queryCache, entries, reqs, early, dom,
                 processedResponses, processedQueryContexts, panels, retryVars>>

\* (variant) only an entry whose result is there counts
HasSettledEntry(query) ==
  queryCache[query] # 0 /\ entries[queryCache[query]].result # NoResult

\* queryCache.has(query)
HasCacheEntry(query) == queryCache[query] # 0

\* the population timer of a panel fires (timing.processingDelay after the
\* injection) and finds a cache entry: use its result, or await its promise
PanelFromCache(p) ==
  /\ panels[p].pc = "timer"
  /\ HasCacheEntry(panels[p].query)
  /\ LET id == queryCache[panels[p].query]
     IN panels' = [panels EXCEPT
                     ![p] = IF entries[id].result # NoResult
                            THEN [@ EXCEPT !.pc = "populated", !.entry = id,
                                           !.content = Render(entries[id].result)]
                            ELSE [@ EXCEPT !.pc = "awaitEntry", !.entry = id,
                                           !.awaited = TRUE]]
  /\ UNCHANGED <<loadVars, inputVars, settingsVars, clockVars, queryCache, entries, reqs, early,
                 pageVars, retryVars>>

\* the population timer fires and finds no cache entry: wait 2000 ms
PanelNoCache(p) ==
  /\ panels[p].pc = "timer"
  /\ ~HasCacheEntry(panels[p].query)
  /\ panels' = [panels EXCEPT ![p].pc = "delay"]
  /\ UNCHANGED <<loadVars, inputVars, settingsVars, clockVars, queryCache, entries, reqs, early,
                 pageVars, retryVars>>

\* the 2000 ms elapsed: api.processQuery(query), awaited
PanelFallback(p) ==
  /\ panels[p].pc = "delay"
  /\ Len(reqs) < MaxReq
  /\ reqs' = Append(reqs, NewRequest(panels[p].query, "fallback"))
  /\ panels' = [panels EXCEPT ![p].pc = "awaitApi", ![p].req = Len(reqs) + 1]
  /\ UNCHANGED <<loadVars, inputVars, settingsVars, clockVars, queryCache, entries, early, pageVars,
                 retryVars>>

\* the assistant streams more text into a response element
TextGrows(e) ==
  /\ \E len \in TextLengths :
       /\ len > dom[e].len
       /\ \A mid \in TextLengths : ~(dom[e].len < mid /\ mid < len)
       /\ dom' = [dom EXCEPT ![e].len = len]
  /\ UNCHANGED <<loadVars, inputVars, settingsVars, clockVars, queryCache, entries, reqs, early,
                 processedResponses, processedQueryContexts, batches, panels,
                 retryVars>>

\* ------------------------------------------------------------------ hxRetry
\* window.hxRetry up to its await of api.processQuery(currentQuery); the
\* request keeps, in panel, the panel whose button, indicator and content
\* elements the handler looked up before the call
hxRetry ==
  /\ retryClicks < MaxRetryClicks
  /\ RetryButtonVisible
  /\ currentPanel # 0 /\ currentQuery # NoQuery
  /\ Len(reqs) < MaxReq
  /\ retryClicks' = retryClicks + 1
  /\ panels' = [panels EXCEPT ![RetryPanel].content = LoadingContent]
  /\ reqs' = Append(reqs, [NewRequest(currentQuery, "retry") EXCEPT !.panel = RetryPanel])
  /\ UNCHANGED <<loadVars, inputVars, settingsVars, clockVars, queryCache, entries, early, pageVars,
                 currentQuery, currentPanel>>

\* a dismiss button is on the page (every error block has one)
DismissButtonVisible ==
  \E p \in DOMAIN panels : panels[p].content.kind = "error" /\ ~panels[p].dismissed

\* window.hxDismiss with its 300 ms timer: the container of currentPanel is
\* removed from the document
hxDismiss ==
  /\ DismissButtonVisible
  /\ currentPanel # 0
  /\ ~panels[currentPanel].dismissed
  /\ panels' = [panels EXCEPT ![currentPanel].dismissed = TRUE]
  /\ UNCHANGED <<loadVars, inputVars, settingsVars, clockVars, queryCache, entries, reqs, early,
                 pageVars, retryVars>>

\* ----------------------------------------------------------- specifications
\* the fetch outcomes drawn where the client runs inside the whole script:
\* an answer, a failure body and a server error (which shows a retry button)
ScriptOutcomes == {"ok", "okfail", "http500"}

ClientNext ==
  \/ \E r \in DOMAIN reqs : ReqFetch(r)
  \/ \E r \in DOMAIN reqs, o \in Outcomes : ReqBackoff(r, o)
  \/ \E r \in DOMAIN reqs : ReqRetry(r)
  \/ \E r \in DOMAIN reqs, o \in Outcomes : ReqSettle(r, o)

ScriptClientNext ==
  \/ \E r \in DOMAIN reqs : ReqFetch(r)
  \/ \E r \in DOMAIN reqs, o \in ScriptOutcomes : ReqSettle(r, o)

SettingsNext ==
  \/ \E v \in BOOLEAN : StorageSet(v)
  \/ OnChanged

\* The enrichment client under every fetch outcome, driven by early
\* processing with enrichment enabled.
ClientSpecNext ==
  \/ ClientNext
  \/ \E q \in Queries : ProcessQueryEarly(q)
  \/ \E i \in DOMAIN early : EarlyCached(i)
  \/ \E i \in DOMAIN early : EarlyStart(i)

ClientSpec == ScriptInit(OnePage) /\ [][ClientSpecNext]_vars

\* The enrichment client when the server answers with a status: every
\* non-2xx status of StatusOutcomes, an answer, and a timeout (retried).
StatusClientOutcomes == StatusOutcomes \cup {"ok", "abort"}

StatusNext ==
  \/ \E r \in DOMAIN reqs : ReqFetch(r)
  \/ \E r \in DOMAIN reqs, o \in StatusClientOutcomes : ReqBackoff(r, o)
  \/ \E r \in DOMAIN reqs : ReqRetry(r)
  \/ \E r \in DOMAIN reqs, o \in StatusClientOutcomes : ReqSettle(r, o)
  \/ \E q \in Queries : ProcessQueryEarly(q)
  \/ \E i \in DOMAIN early : EarlyCached(i)
  \/ \E i \in DOMAIN early : EarlyStart(i)

StatusSpec == ScriptInit(OnePage) /\ [][StatusNext]_vars

\* The query cache: early processing, the settings listener and the sweep.
CacheNext ==
  \/ ScriptClientNext
  \/ \E q \in Queries : ProcessQueryEarly(q)
  \/ \E i \in DOMAIN early : EarlyDisabled(i)
  \/ \E i \in DOMAIN early : EarlyCached(i)
  \/ \E i \in DOMAIN early : EarlyStart(i)
  \/ SettingsNext
  \/ Tick
  \/ Sweep

CacheSpec == ScriptInit(OnePage) /\ [][CacheNext]_vars

\* Response processing on a page whose input is not captured (the cache
\* stays empty): batches, panels, the fallback call, retry, the settings.
PageNext ==
  \/ ScriptClientNext
  \/ SettingsNext
  \/ ProcessAllResponses
  \/ \E b \in DOMAIN batches : ProcessResponse(b)
  \/ \E b \in DOMAIN batches : BatchNext(b)
  \/ \E p \in DOMAIN panels : PanelNoCache(p)
  \/ \E p \in DOMAIN panels : PanelFallback(p)
  \/ hxRetry
  \/ hxDismiss
  \/ \E e \in Elements : TextGrows(e)

PageSpec == Init /\ [][PageNext]_vars

\* the pages with nested elements: a fallback-selector element around a
\* primary one, a primary one around a fallback one, two divs that match no
\* selector, and two siblings
AdapterPages ==
  { <<[Elem(300, FALSE, WhichIsBest, "article") EXCEPT !.matches = "fallback"],
      [Elem(250, FALSE, WhichIsBest, "standard-markdown") EXCEPT !.parent = 1]>>,
    <<Elem(300, FALSE, WhichIsBest, "standard-markdown"),
      [Elem(250, FALSE, WhichIsBest, "markdown") EXCEPT !.matches = "fallback",
                                                        !.parent = 1]>>,
    <<[Elem(300, FALSE, WhichIsBest, "div") EXCEPT !.matches = "none"],
      [Elem(250, FALSE, WhichIsBest, "div") EXCEPT !.matches = "none",
                                                   !.parent = 1]>>,
    <<[Elem(250, FALSE, WhichIsBest, "markdown") EXCEPT !.matches = "fallback"],
      Elem(250, FALSE, TellMeAJoke, "standard-markdown")>> }

\* Response search and panel injection of the four adapters.
AdapterNext ==
  \/ ProcessAllResponses
  \/ \E b \in DOMAIN batches : ProcessResponse(b)
  \/ \E b \in DOMAIN batches : BatchNext(b)
  \/ \E e \in Elements : TextGrows(e)
  \/ SettingsNext

AdapterSpec == (\E v \in Vendors : LoadedOn(v, AdapterPages)) /\ [][AdapterNext]_vars

\* pages for the injection: a fallback-selector element and a
\* model-response side by side in one conversation container, in two
\* containers, and in none; a model-response around a fallback-selector
\* element; an element with a child of 250 characters that holds the user
\* query, and one that does not; a primary-selector element around another
InjectPages ==
  { <<[Elem(300, FALSE, WhichIsBest, "response-container") EXCEPT !.matches = "fallback"],
      Elem(250, FALSE, WhichIsBest, "model-response")>>,
    <<[Elem(300, FALSE, WhichIsBest, "response-container") EXCEPT !.matches = "fallback"],
      [Elem(250, FALSE, TellMeAJoke, "model-response") EXCEPT !.conv = 2]>>,
    <<[Elem(300, FALSE, WhichIsBest, "response-container") EXCEPT
         !.matches = "fallback", !.conv = 0],
      [Elem(250, FALSE, WhichIsBest, "model-response") EXCEPT !.conv = 0]>>,
    <<Elem(300, FALSE, WhichIsBest, "model-response"),
      [Elem(250, FALSE, WhichIsBest, "response-container") EXCEPT
         !.matches = "fallback", !.parent = 1]>>,
    <<Elem(400, FALSE, WhichIsBest, "article"),
      [Elem(250, FALSE, WhichIsBest, "div") EXCEPT !.matches = "none", !.parent = 1]>>,
    <<[Elem(400, FALSE, WhichIsBest, "article") EXCEPT !.holdsQuery = FALSE],
      [Elem(250, FALSE, WhichIsBest, "div") EXCEPT !.matches = "none", !.parent = 1,
                                                   !.holdsQuery = FALSE]>>,
    <<Elem(300, FALSE, WhichIsBest, "standard-markdown"),
      [Elem(250, FALSE, WhichIsBest, "standard-markdown") EXCEPT !.parent = 1]>> }

\* Response search and panel injection of the four adapters on these pages.
InjectNext ==
  \/ ProcessAllResponses
  \/ \E b \in DOMAIN batches : ProcessResponse(b)
  \/ \E b \in DOMAIN batches : BatchNext(b)

InjectSpec == (\E v \in Vendors : LoadedOn(v, InjectPages)) /\ [][InjectNext]_vars

\* init calls processAllResponses, and awaits it, before it sets up the
\* mutation observer: the first invocation runs alone
InitRun ==
  /\ batches = <<>>
  /\ processedResponses = {}
  /\ ProcessAllResponses

\* The batch driver called by init, with the population of its panels.
DriverNext ==
  \/ InitRun
  \/ \E b \in DOMAIN batches : ProcessResponse(b)
  \/ \E b \in DOMAIN batches : BatchNext(b)
  \/ \E p \in DOMAIN panels : PanelNoCache(p)
  \/ \E p \in DOMAIN panels : PanelFallback(p)
  \/ ScriptClientNext

DriverSpec == Init /\ [][DriverNext]_vars

\* a query typed in lower case and without the hyphen:
\* which weight loss drug is safer: zepbound or wegovy?
WeightLossQuery ==
  <<"w","h","i","c","h"," ","w","e","i","g","h","t"," ","l","o","s","s",
    " ","d","r","u","g"," ","i","s"," ","s","a","f","e","r",":"," ","z",
    "e","p","b","o","u","n","d"," ","o","r"," ","w","e","g","o","v","y",
    "?">>

\* String.prototype.toUpperCase, for the letters
toUpperCase(str) ==
  [i \in 1..Len(str) |->
     IF \E k \in 1..26 : LowerCase[k] = str[i]
     THEN UpperCase[CHOOSE k \in 1..26 : LowerCase[k] = str[i]]
     ELSE str[i]]

\* the text with every blank typed twice
DoubleSpaced(str) ==
  LET F[i \in 0..Len(str)] ==
        IF i = 0 THEN <<>>
        ELSE IF str[i] = " " THEN F[i - 1] \o <<" ", " ">>
        ELSE Append(F[i - 1], str[i])
  IN F[Len(str)]

\* the text followed by n exclamation marks
Exclaimed(str, n) == str \o [i \in 1..n |-> "!"]

\* the text with character i mistyped
Mistyped(str, i) == [str EXCEPT ![i] = "#"]

\* The texts submitted in the input field (trimmed, more than 10
\* characters): catalog questions as they are, in capitals, with doubled
\* blanks, with a typing error, with 2 and 3 characters added, and texts
\* that are not in the catalog.
DemoInputs ==
  { WeightLossQuery, DemoQuestion1, toUpperCase(DemoQuestion4),
    DoubleSpaced(DemoQuestion4), Exclaimed(DemoQuestion4, 2),
    Exclaimed(DemoQuestion4, 3), Mistyped(DemoQuestion2, 7), WhichIsBest }

\* Early processing with demo mode on or off.
DemoNext ==
  \/ ScriptClientNext
  \/ \E q \in DemoInputs : ProcessQueryEarly(q)
  \/ \E i \in DOMAIN early : EarlyCached(i)
  \/ \E i \in DOMAIN early : EarlyDemo(i)
  \/ \E i \in DOMAIN early : EarlyStart(i)

DemoSpec ==
  (\E demo \in BOOLEAN : Loaded("Claude", OnePage, DemoInputs, demo))
  /\ [][DemoNext]_vars

\* one question typed as it is, in capitals and with doubled blanks, and
\* another question
CaseInputs ==
  { WhichIsBest, toUpperCase(WhichIsBest), DoubleSpaced(WhichIsBest), TellMeAJoke }

\* Early processing of texts that differ in case and blanks, demo mode off.
CaseNext ==
  \/ ScriptClientNext
  \/ \E q \in CaseInputs : ProcessQueryEarly(q)
  \/ \E i \in DOMAIN early : EarlyCached(i)
  \/ \E i \in DOMAIN early : EarlyStart(i)

CaseSpec == Loaded("Claude", OnePage, CaseInputs, FALSE) /\ [][CaseNext]_vars

\* a div of Meta's page: no response selector matches its classes
MetaDiv(len, parent, divs, prose) ==
  [Elem(len, FALSE, WhichIsBest, "div") EXCEPT
     !.matches = "none", !.parent = parent, !.moreDivs = divs, !.prose = prose]

\* Pages of meta.ai with two divs, the second one inside the first or after
\* it: a div of 400 or of 16000 characters with few or with 60 further
\* divs in it, and a div of 150, 200 or 400 characters, prose or not.
HeuristicPages ==
  { <<MetaDiv(len1, 0, divs, TRUE), MetaDiv(len2, parent, 0, prose)>> :
      len1 \in {400, 16000}, divs \in {0, 60}, len2 \in {150, 200, 400},
      parent \in {0, 1}, prose \in BOOLEAN }

\* Response search on meta.ai where the selectors match nothing, on a page
\* with no other text and on one with a conversation.
HeuristicNext ==
  \/ ProcessAllResponses
  \/ \E b \in DOMAIN batches : ProcessResponse(b)
  \/ \E b \in DOMAIN batches : BatchNext(b)
  \/ \E p \in DOMAIN panels : PanelNoCache(p)

HeuristicSpec ==
  LoadedPage("Meta", HeuristicPages, Queries, FALSE, {0, LandingPageLimit})
  /\ [][HeuristicNext]_vars

\* One turn of a conversation: the user types the query and the response
\* arrives, with enrichment enabled.  The fetch ends with an answer, a
\* failure body, a timeout (retried with backoff, as a network failure is)
\* or a server error (not retried, as the other failures).
TurnOutcomes == {"ok", "okfail", "abort", "http500"}

TurnClientNext ==
  \/ \E r \in DOMAIN reqs : ReqFetch(r)
  \/ \E r \in DOMAIN reqs, o \in TurnOutcomes : ReqBackoff(r, o)
  \/ \E r \in DOMAIN reqs : ReqRetry(r)
  \/ \E r \in DOMAIN reqs, o \in TurnOutcomes : ReqSettle(r, o)

TurnNext ==
  \/ TurnClientNext
  \/ ProcessQueryEarly(WhichIsBest)
  \/ \E i \in DOMAIN early : EarlyCached(i)
  \/ \E i \in DOMAIN early : EarlyStart(i)
  \/ ProcessAllResponses
  \/ \E b \in DOMAIN batches : ProcessResponse(b)
  \/ \E b \in DOMAIN batches : BatchNext(b)
  \/ \E p \in DOMAIN panels : PanelFromCache(p)
  \/ \E p \in DOMAIN panels : PanelNoCache(p)
  \/ \E p \in DOMAIN panels : PanelFallback(p)

\* a page with one response and a preparatory message
TurnPage ==
  { <<Elem(250, FALSE, WhichIsBest, "standard-markdown"),
      Elem(250, TRUE, WhichIsBest, "standard-markdown")>> }

\* the population timers fire (setTimeout), and each network call settles
\* or times out (the abort timer of the client)
TurnFairness ==
  /\ WF_vars(\E p \in DOMAIN panels : PanelFromCache(p))
  /\ WF_vars(\E p \in DOMAIN panels : PanelNoCache(p))
  /\ WF_vars(\E p \in DOMAIN panels : PanelFallback(p))
  /\ WF_vars(TurnClientNext)

TurnSpec == ScriptInit(TurnPage) /\ [][TurnNext]_vars /\ TurnFairness

\* init of the first block, after the health check: processAllResponses
\* searches the document with the Claude selectors
FirstBlockScan ==
  /\ firstBlock.pc = "health"
  /\ firstBlock' = [pc |-> "scan",
                    called |-> firstBlock.called \cup {"querySelectorAll"}]
  /\ UNCHANGED <<vendor, bodyText, inputVars, settingsVars, clockVars, queryCache, entries,
                 reqs, early, pageVars, panels, retryVars>>

\* init of the first block goes on: setupObserver and setupInputMonitoring
FirstBlockObserve ==
  /\ firstBlock.pc = "scan"
  /\ firstBlock' = [pc |-> "ready",
                    called |-> firstBlock.called
                                 \cup {"MutationObserver", "addEventListener"}]
  /\ UNCHANGED <<vendor, bodyText, inputVars, settingsVars, clockVars, queryCache, entries,
                 reqs, early, pageVars, panels, retryVars>>

\* what the second block does once it has an adapter; without an adapter it
\* has returned before it registers or defines anything
AdapterSteps ==
  /\ vendor # NoVendor
  /\ \/ ProcessAllResponses
     \/ \E b \in DOMAIN batches : ProcessResponse(b)
     \/ \E b \in DOMAIN batches : BatchNext(b)
     \/ Mutated
     \/ TimePasses
     \/ \E k \in DOMAIN observer : ObserverRun(k)
     \/ Tick
     \/ Sweep

\* The file loaded on any page: both script blocks.
LoadNext ==
  \/ FirstBlockScan
  \/ FirstBlockObserve
  \/ AdapterSteps

LoadSpec ==
  (\E v \in Vendors \cup {NoVendor} : LoadedOn(v, Pages)) /\ [][LoadNext]_vars

\* The mutation observer with response processing.
ObserverNext ==
  \/ Mutated
  \/ TimePasses
  \/ \E k \in DOMAIN observer : ObserverRun(k)
  \/ \E b \in DOMAIN batches : ProcessResponse(b)
  \/ \E b \in DOMAIN batches : BatchNext(b)
  \/ \E e \in Elements : TextGrows(e)

ObserverSpec == Init /\ [][ObserverNext]_vars

\* Input capture and the interval callback alone, enrichment enabled
\* throughout: the cache changes only by early processing and by the sweep.
SweepNext ==
  \/ ScriptClientNext
  \/ \E q \in Queries : ProcessQueryEarly(q)
  \/ \E i \in DOMAIN early : EarlyCached(i)
  \/ \E i \in DOMAIN early : EarlyStart(i)
  \/ Tick
  \/ Sweep

SweepSpec == ScriptInit(OnePage) /\ [][SweepNext]_vars

\* Input capture together with response processing, enrichment enabled:
\* the early and the response-time consumers of the cache.
SharedNext ==
  \/ ScriptClientNext
  \/ \E q \in Queries : ProcessQueryEarly(q)
  \/ \E i \in DOMAIN early : EarlyCached(i)
  \/ \E i \in DOMAIN early : EarlyStart(i)
  \/ ProcessAllResponses
  \/ \E b \in DOMAIN batches : ProcessResponse(b)
  \/ \E b \in DOMAIN batches : BatchNext(b)
  \/ \E p \in DOMAIN panels : PanelFromCache(p)
  \/ \E p \in DOMAIN panels : PanelNoCache(p)
  \/ \E p \in DOMAIN panels : PanelFallback(p)

SharedSpec == Init /\ [][SharedNext]_vars

\* the context keys of n earlier responses, of n different lengths
EarlierContexts(n) ==
  {createQueryContext(TellMeAJoke, [len |-> 300 + k, cls |-> "standard-markdown"]) :
     k \in 1..n}

\* a response and a second element with the same query, text length and
\* class (the response rendered again)
RenderedAgain ==
  { <<Elem(250, FALSE, WhichIsBest, "standard-markdown"),
      Elem(250, FALSE, WhichIsBest, "standard-markdown")>> }

\* Response processing and the interval callback late in the life of a
\* page: no, ContextLimit - 1 or ContextLimit context keys are recorded.
LifetimeNext ==
  \/ ScriptClientNext
  \/ ProcessAllResponses
  \/ \E b \in DOMAIN batches : ProcessResponse(b)
  \/ \E b \in DOMAIN batches : BatchNext(b)
  \/ \E p \in DOMAIN panels : PanelNoCache(p)
  \/ \E p \in DOMAIN panels : PanelFallback(p)
  \/ Tick
  \/ Sweep

LifetimeSpec ==
  /\ LoadedLater("Claude", RenderedAgain, Queries, FALSE, {LandingPageLimit},
                 {EarlierContexts(0), EarlierContexts(ContextLimit - 1),
                  EarlierContexts(ContextLimit)})
  /\ [][LifetimeNext]_vars

\* the keys and modifiers of the keydown events
Keys == {"Enter", "a"}

\* Input monitoring with enrichment enabled: the page mounts and removes
\* input fields and buttons, the user types, presses keys, submits and
\* clicks; each processQueryEarly call runs up to its first await.
InputNext ==
  \/ \E inForm \in BOOLEAN : FieldMounts(inForm)
  \/ FieldRemoved
  \/ \E text \in InputTexts : Types(text)
  \/ \E selectors \in {1, 2} : ButtonMounts(selectors)
  \/ setupInputMonitoring
  \/ InputPoll
  \/ \E key \in Keys, shiftKey \in BOOLEAN : KeyDown(key, shiftKey)
  \/ FormSubmit
  \/ \E b \in DOMAIN buttons : Click(b)

InputSpec == Loaded("Claude", OnePage, InputQueries, FALSE) /\ [][InputNext]_vars

\* The search for the input field alone: the page mounts and removes
\* fields and buttons, init calls setupInputMonitoring, the retry timer
\* fires.  The call and a pending timer are not put off forever.
PollNext ==
  \/ \E inForm \in BOOLEAN : FieldMounts(inForm)
  \/ FieldRemoved
  \/ \E selectors \in {1, 2} : ButtonMounts(selectors)
  \/ setupInputMonitoring
  \/ InputPoll

PollFairness == WF_vars(setupInputMonitoring) /\ WF_vars(InputPoll)

PollSpec ==
  /\ Loaded("Claude", OnePage, InputQueries, FALSE)
  /\ [][PollNext]_vars
  /\ PollFairness

\* Population from the cache while entries leave it: early processing,
\* batches, the timers that find an entry, the settings listener and the
\* sweep, after the user has submitted one query.  A request that has been
\* started runs to its end.
EvictNext ==
  \/ ScriptClientNext
  \/ early = <<>> /\ ProcessQueryEarly(WhichIsBest)
  \/ \E i \in DOMAIN early : EarlyDisabled(i)
  \/ \E i \in DOMAIN early : EarlyStart(i)
  \/ ProcessAllResponses
  \/ \E b \in DOMAIN batches : ProcessResponse(b)
  \/ \E b \in DOMAIN batches : BatchNext(b)
  \/ \E p \in DOMAIN panels : PanelFromCache(p)
  \/ SettingsNext
  \/ Tick
  \/ Sweep

EvictSpec == ScriptInit(TurnPage) /\ [][EvictNext]_vars /\ WF_vars(ScriptClientNext)

\* a page with a response and a second one that is still short
GrowingPage ==
  { <<Elem(250, FALSE, WhichIsBest, "standard-markdown"),
      Elem(150, FALSE, TellMeAJoke, "standard-markdown")>> }

\* init has not yet called setupObserver and setupInputMonitoring (it calls
\* the two one after the other, without an await between them)
BeforeObserver == watcher.pc = "notStarted"

\* init starts the awaited processAllResponses
InitBatch == BeforeObserver /\ InitRun

\* the awaited processAllResponses of init has returned (at once when it
\* found nothing): init calls setupObserver and setupInputMonitoring
InitObserves ==
  /\ BeforeObserver
  /\ batches = <<>>
  /\ processedResponses # {} \/ findResponseContainers = <<>>
  /\ setupInputMonitoring

\* the observer, once registered, is called with a qualifying batch
Observed == ~BeforeObserver /\ Mutated

\* init with the batch driver and the mutation observer, while the page
\* streams text into its responses.  Timers fire and awaited calls return;
\* what the page mutates is up to the page.
StartNext ==
  \/ InitBatch
  \/ InitObserves
  \/ \E b \in DOMAIN batches : ProcessResponse(b)
  \/ \E b \in DOMAIN batches : BatchNext(b)
  \/ \E e \in Elements : TextGrows(e)
  \/ Observed
  \/ TimePasses
  \/ \E k \in DOMAIN observer : ObserverRun(k)

StartFairness ==
  /\ WF_vars(InitBatch)
  /\ WF_vars(InitObserves)
  /\ WF_vars(\E b \in DOMAIN batches : ProcessResponse(b))
  /\ WF_vars(\E b \in DOMAIN batches : BatchNext(b))
  /\ WF_vars(TimePasses)
  /\ WF_vars(\E k \in DOMAIN observer : ObserverRun(k))

StartSpec == ScriptInit(GrowingPage) /\ [][StartNext]_vars /\ StartFairness

\* The whole script.
Next ==
  \/ ClientNext
  \/ \E q \in Queries : ProcessQueryEarly(q)
  \/ \E i \in DOMAIN early : EarlyDisabled(i)
  \/ \E i \in DOMAIN early : EarlyCached(i)
  \/ \E i \in DOMAIN early : EarlyStart(i)
  \/ SettingsNext
  \/ Tick
  \/ Sweep
  \/ PageNext
  \/ \E p \in DOMAIN panels : PanelFromCache(p)
  \/ Mutated
  \/ TimePasses
  \/ \E k \in DOMAIN observer : ObserverRun(k)
  \/ FirstBlockScan
  \/ FirstBlockObserve

Spec == Init /\ [][Next]_vars

\* =================================================================== claims

\* attempt number k (from 1) of request r has been made or is scheduled
AttemptMade(r, k) ==
  \/ k <= reqs[r].retryCount + 1
  \/ reqs[r].pc = "backoff" /\ k = reqs[r].retryCount + 2

\* C6: processQuery makes attempt k+1, after waiting 1000*k ms, if and only
\* if attempt k failed with kind timeout or network and k <= 2; so one
\* processQuery call makes at most 3 network calls, exactly 1 when the first
\* failure is server or generic, and with failures on attempts 1 and 2 and
\* success on attempt 3 it makes exactly 3 calls with delays 1000 ms then
\* 2000 ms and returns the successful result.
C6_RetryPolicy ==
  \A r \in DOMAIN reqs :
    LET q == reqs[r] IN
    /\ q.calls <= 3
    /\ q.calls = Len(q.outcomes) + (IF q.pc = "fetch" THEN 1 ELSE 0)
    /\ \A k \in 1..Len(q.outcomes) :
         AttemptMade(r, k + 1) <=>
           /\ k <= Len(q.errors)
           /\ q.errors[k] \in {"timeout", "network"}
           /\ k <= 2
    /\ Len(q.delays) = Cardinality({k \in 2..4 : AttemptMade(r, k)})
    /\ \A k \in 1..Len(q.delays) : q.delays[k] = 1000 * k
    /\ (Len(q.errors) >= 1 /\ q.errors[1] \in {"server", "generic"})
         => (q.pc = "done" /\ q.calls = 1)
    /\ (q.pc = "done" /\ Len(q.outcomes) = 3 /\ q.outcomes[3] = "ok")
         => /\ q.calls = 3
            /\ q.delays = <<1000, 2000>>
            /\ q.result.success = TRUE
            /\ q.result.errorType = Null

\* two network failures, then success on the third attempt
C6_Witness ==
  \E r \in DOMAIN reqs :
    /\ reqs[r].pc = "done"
    /\ reqs[r].outcomes = <<"failedfetch", "failedfetch", "ok">>

\* C7: every failure result synthesized by processQuery has success = false
\* and a _retryable flag that is true exactly when its error kind is timeout,
\* network or server, and false for generic and non-5xx HTTP-status failures.
C7_RetryableFlag ==
  \A r \in DOMAIN reqs :
    LET q == reqs[r]
        last == q.outcomes[Len(q.outcomes)]
    IN q.pc = "done" =>
         /\ (last \notin {"ok", "okfail"}) <=> (q.result.errorType # Null)
         /\ q.result.errorType # Null =>
              /\ q.result.success = FALSE
              /\ q.result.retryable \in {"true", "false"}
              /\ (q.result.retryable = "true") <=>
                   (q.result.errorType \in {"timeout", "network", "server"})
         /\ last \in {"http404", "http400", "badjson"} =>
              (q.result.errorType = "generic" /\ q.result.retryable = "false")
         /\ last = "http500" =>
              (q.result.errorType = "server" /\ q.result.retryable = "true")

\* a server failure (retryable) and a 404 failure (not retryable) were returned
C7_Witness ==
  /\ \E r \in DOMAIN reqs :
       reqs[r].pc = "done" /\ reqs[r].outcomes = <<"http500">>
  /\ \E r \in DOMAIN reqs :
       reqs[r].pc = "done" /\ reqs[r].outcomes = <<"http404">>

\* C1: two calls of processQueryEarly with the same query that overlap in
\* time cause at most one invocation of api.processQuery, and the second
\* call returns the very cache entry created by the first.
C1_EarlyDedup ==
  \A i, j \in DOMAIN early :
    (i # j /\ early[i].query = early[j].query /\ early[i].pc = "awaitApi") =>
      /\ early[j].pc # "awaitApi"
      /\ (early[j].pc = "done" /\ j > i /\ early[j].ret # 0) =>
           early[j].ret = early[i].entry

\* C2: at any time there is at most one in-flight or completed enrichment
\* request per distinct query string, counted over all consumers (early
\* capture, the population path with its no-cache fallback, retry).
C2_OneRequestPerQuery ==
  \A r1, r2 \in DOMAIN reqs :
    reqs[r1].query = reqs[r2].query => r1 = r2

\* C3: for every response element, under any number of processResponse
\* calls on it, sequential or interleaved from overlapping batch-driver
\* invocations, at most one panel is ever injected for that element.
C3_OnePanelPerElement ==
  \A p1, p2 \in DOMAIN panels :
    panels[p1].element = panels[p2].element => p1 = p2

\* two overlapping batches have both called processResponse on an element
\* whose text grew after its panel was injected
C3_Witness ==
  \E b1, b2 \in DOMAIN batches : \E p \in DOMAIN panels :
    /\ b1 # b2
    /\ batches[b1].pc = "pace" /\ batches[b2].pc = "pace"
    /\ batches[b1].responses[batches[b1].i] = panels[p].element
    /\ batches[b2].responses[batches[b2].i] = panels[p].element
    /\ createQueryContext(panels[p].query, dom[panels[p].element])
         \notin processedQueryContexts

\* C4: a panel is injected only for a response whose extracted user query is
\* commercial; a response with a non-commercial query gets no panel and no
\* enrichment request.
C4_CommercialOnly ==
  /\ \A p \in DOMAIN panels : IsCommercial(panels[p].query)
  /\ \A r \in DOMAIN reqs : IsCommercial(reqs[r].query)

\* the step is a run of the interval callback
IsSweepStep == sweepDue /\ ~sweepDue'

\* the step delivers the notification that enrichment was switched off
IsDisableNotice ==
  /\ pendingChange # <<>>
  /\ pendingChange' = Tail(pendingChange)
  /\ Head(pendingChange).oldValue /\ ~Head(pendingChange).newValue

\* C5 (as stated): a cache entry is removed from the query cache if and only
\* if its age exceeds 5 minutes: no entry younger than that is ever removed,
\* and every entry older than that is removed (at the sweep).
C5_EvictedIffOld ==
  [][\A q \in Queries :
       queryCache[q] # 0 =>
         /\ queryCache'[q] # queryCache[q] => entries[queryCache[q]].age > 5
         /\ (IsSweepStep /\ entries[queryCache[q]].age > 5) => queryCache'[q] = 0
    ]_vars

\* C5 (amended): the periodic sweep removes an entry if and only if its age
\* exceeds 5 minutes at that sweep; the only other removal is the settings
\* listener's clear when enrichment is switched off, which removes every
\* entry whatever its age.
C5_SweepEvictsIffOld ==
  [][\A q \in Queries :
       queryCache[q] # 0 =>
         /\ IsSweepStep =>
              ((queryCache'[q] = 0) <=> (entries[queryCache[q]].age > 5))
         /\ IsDisableNotice => queryCache'[q] = 0
         /\ queryCache'[q] # queryCache[q] => (IsSweepStep \/ IsDisableNotice)
    ]_vars

\* a sweep has removed an entry older than 5 minutes and kept one that was
\* exactly 5 minutes old
C5_Witness ==
  /\ ~sweepDue
  /\ \E e \in DOMAIN entries : ~InCache(e) /\ entries[e].age > 5
  /\ \E q \in Queries : queryCache[q] # 0 /\ entries[queryCache[q]].age = 5

\* C8: when the answer endpoint returns a body {success: false, error: "x"},
\* the panel populated from that response shows an error block that includes
\* a visible retry control.
C8_FailureBodyHasRetry ==
  \A p \in DOMAIN panels :
    (/\ retryClicks = 0
     /\ panels[p].pc = "populated"
     /\ panels[p].req # 0
     /\ reqs[panels[p].req].outcomes = <<"okfail">>) =>
      (panels[p].content.kind = "error" /\ panels[p].content.retryButton)

\* C9: processQueryEarly returns null, creates no cache entry and issues no
\* network call whenever enrichment is disabled or the query does not look
\* commercial.
C9_EarlyGate ==
  [][\A i \in DOMAIN early :
       (/\ early[i].pc = "settings"
        /\ early'[i].pc # "settings"
        /\ (~enabled \/ ~IsCommercial(early[i].query))) =>
         /\ early'[i].pc = "done" /\ early'[i].ret = 0
         /\ entries' = entries
         /\ queryCache' = queryCache
         /\ reqs' = reqs
    ]_vars

\* C10: while the extensionEnabled setting is false, no enrichment request is
\* issued and no panel is injected or populated, whichever path is taken.
C10_DisabledIsQuiet ==
  [][~enabled =>
       /\ Len(reqs') = Len(reqs)
       /\ \A r \in DOMAIN reqs : reqs'[r].calls = reqs[r].calls
       /\ Len(panels') = Len(panels)
       /\ \A p \in DOMAIN panels :
            panels'[p].content.kind \in {"success", "error"} =>
              panels'[p].content = panels[p].content
    ]_vars

\* the step delivers a notification of a change that disabled enrichment
IsDisablingNotice ==
  /\ pendingChange # <<>>
  /\ pendingChange' = Tail(pendingChange)
  /\ ~Head(pendingChange).newValue

\* C11: whenever the settings change so that enrichment becomes disabled,
\* the query cache is empty right after the change notification is handled;
\* so while enrichment is disabled and every notification has been handled
\* the cache holds nothing that could be served after a re-enable.
C11_ClearedOnDisable ==
  /\ [][IsDisablingNotice => \A q \in Queries : queryCache'[q] = 0]_vars
  /\ []((~enabled /\ pendingChange = <<>>) => \A q \in Queries : queryCache[q] = 0)

\* the step is one processResponse call, on the element it returns
IsProcessResponseOn(e) ==
  /\ Len(batches') = Len(batches)
  /\ \E b \in DOMAIN batches :
       /\ batches[b].pc = "settings" /\ batches'[b].pc = "pace"
       /\ batches[b].responses[batches[b].i] = e

\* C12: once a response element has been visited no later processResponse
\* call injects a panel for it or records a context for it, even if its
\* text changed in between; a visit with enrichment enabled marks the
\* element and the mark is never taken back.
C12_VisitedOnce ==
  [][/\ processedResponses \subseteq processedResponses'
     /\ \A e \in Elements :
          (IsProcessResponseOn(e) /\ enabled) => e \in processedResponses'
     /\ \A e \in processedResponses :
          /\ \A p \in DOMAIN panels' :
               panels'[p].element = e => p \in DOMAIN panels
          /\ IsProcessResponseOn(e) =>
               processedQueryContexts' = processedQueryContexts
    ]_vars

\* a rejected element whose text has grown since has been handed to
\* processResponse by two overlapping batches and has no panel
C12_Witness ==
  \E b1, b2 \in DOMAIN batches : \E e \in processedResponses :
    /\ b1 # b2
    /\ batches[b1].pc = "pace" /\ batches[b2].pc = "pace"
    /\ batches[b1].responses[batches[b1].i] = e
    /\ batches[b2].responses[batches[b2].i] = e
    /\ ~InContainer(e)
    /\ dom[e].prep /\ dom[e].len = 300

\* C13: a panel is injected for a response element only if, in that same
\* processResponse call, the element was newly added to processedResponses,
\* its text has at least 200 characters and does not begin with a
\* preparatory phrase, a query was extracted (the panel's query), and the
\* context key was not yet in processedQueryContexts.
C13_InjectionPreconditions ==
  [][\A p \in DOMAIN panels' :
       p \notin DOMAIN panels =>
         LET e == panels'[p].element IN
           /\ IsProcessResponseOn(e)
           /\ e \notin processedResponses /\ e \in processedResponses'
           /\ dom[e].len >= 200 /\ ~dom[e].prep
           /\ dom[e].query # NoQuery /\ panels'[p].query = dom[e].query
           /\ <<dom[e].query, dom[e].len, dom[e].cls>> \notin processedQueryContexts
           /\ <<dom[e].query, dom[e].len, dom[e].cls>> \in processedQueryContexts'
    ]_vars

\* one element has its panel; another, visited with the same query and an
\* equally long text, was refused one for its context key
C13_Witness ==
  \E p \in DOMAIN panels : \E e \in processedResponses :
    /\ panels[p].element # e
    /\ ~InContainer(e)
    /\ ~dom[e].prep /\ dom[e].len >= 200
    /\ dom[e].query = panels[p].query

\* the elements findResponseContainers returns in the present state
Returned == {findResponseContainers[k] : k \in DOMAIN findResponseContainers}

\* C14: for all four vendor adapters, findResponseContainers never returns
\* an element that is in processedResponses, nor one that lies inside, or
\* contains, an injected panel or an injected container.
C14_FinderSkipsHandled ==
  \A e \in Returned :
    /\ e \notin processedResponses
    /\ \A p \in DOMAIN panels :
         /\ panels[p].wrapped \notin AncestorsOrSelf(e)
         /\ e \notin AncestorsOrSelf(panels[p].wrapped)

\* the search leaves out an element that matches a selector, is long enough
\* and was never handed to processResponse, because it contains the
\* container injected for another element
C14_Witness ==
  \E p \in DOMAIN panels : \E e \in Elements :
    /\ e \notin processedResponses
    /\ e \notin Returned
    /\ dom[e].matches = "fallback" /\ dom[e].len > 200
    /\ panels[p].wrapped # e
    /\ e \in AncestorsOrSelf(panels[p].wrapped)

\* the current pair is the most recently created panel and its query
CurrentIsLatest ==
  IF panels = <<>> THEN currentPanel = 0 /\ currentQuery = NoQuery
  ELSE currentPanel = Len(panels) /\ currentQuery = panels[Len(panels)].query

\* the step changes no panel but the most recently created one
OnlyLatestChanges ==
  \A p \in DOMAIN panels : panels'[p] # panels[p] => p = Len(panels)

\* C15: after any sequence of response processing the current pair (current
\* query, current panel) is the most recently created panel and the query
\* it was created for; retry (its click and the rendering of its result)
\* and dismiss act on exactly that panel.
C15_CurrentPair ==
  /\ []CurrentIsLatest
  /\ [][/\ retryClicks' # retryClicks =>
            /\ OnlyLatestChanges
            /\ panels'[Len(panels)].content = LoadingContent
            /\ reqs'[Len(reqs')].query = panels[Len(panels)].query
        /\ (\E r \in DOMAIN reqs :
              reqs[r].caller = "retry" /\ reqs[r].pc # "done" /\ reqs'[r].pc = "done") =>
            /\ OnlyLatestChanges
            /\ panels'[Len(panels)].content.kind # "loading"
        /\ (\E p \in DOMAIN panels : ~panels[p].dismissed /\ panels'[p].dismissed) =>
            /\ OnlyLatestChanges
            /\ panels'[Len(panels)].dismissed
       ]_vars

\* the retry button of the first panel was clicked and the result of the
\* retry was rendered into the second, more recent panel, which had not been
\* populated; that panel was then dismissed
C15_Witness ==
  /\ Len(panels) = 2
  /\ retryClicks = 1
  /\ \E r \in DOMAIN reqs : reqs[r].caller = "retry" /\ reqs[r].pc = "done"
  /\ panels[1].content.retryButton
  /\ panels[2].pc # "populated"
  /\ panels[2].content.kind = "error"
  /\ panels[2].dismissed

\* the step populates panel p
Populates(p) == panels[p].pc # "populated" /\ panels'[p].pc = "populated"

C17_Debounced ==
  [][Len(observer') < Len(observer) =>
       \A k \in DOMAIN observer : observer[k] >= 1000
    ]_vars

\* C18: within one batch-driver invocation the next response is taken up
\* only after the previous response's processing has finished, up to its
\* panel being populated or its rejection, and the pacing delay has elapsed;
\* hence the batch never has two enrichment requests in flight at a time.
C18_BatchSequential ==
  /\ [][\A b \in DOMAIN batches :
          (/\ Len(batches') = Len(batches)
           /\ batches'[b].i = batches[b].i + 1) =>
            /\ batches[b].pc = "pace"
            /\ \A p \in DOMAIN panels :
                 panels[p].element = batches[b].responses[batches[b].i] =>
                   panels[p].pc = "populated"
       ]_vars
  /\ [](\A r1, r2 \in DOMAIN reqs :
          (reqs[r1].pc # "done" /\ reqs[r2].pc # "done") => r1 = r2)

\* C19: every injected panel is eventually populated, with success content
\* or with an error block, whatever the outcome of the enrichment request
\* (an answer, a failure body, a timeout, a network, server or other
\* failure), given that each network call settles or times out.
C19_EventuallyPopulated ==
  \A p \in Elements :
    (Len(panels) >= p) ~>
      (Len(panels) >= p /\ panels[p].pc = "populated"
                        /\ panels[p].content.kind \in {"success", "error"})

\* a panel that waited for the early call of its query shows the error block
\* of a request that timed out on every attempt
C19_Witness ==
  \E p \in DOMAIN panels :
    /\ panels[p].pc = "populated"
    /\ panels[p].entry # 0
    /\ entries[panels[p].entry].promise # 0
    /\ reqs[entries[panels[p].entry].promise].retryCount = maxRetries
    /\ panels[p].content.kind = "error"
    /\ panels[p].content.errorType = "timeout"

\* C20: when the hostname matches no vendor nothing is registered (no
\* timer, observer or listener) and the document is neither read nor
\* written; otherwise the adapter chosen at load is the one every later
\* operation uses.
C20_NoAdapterNoWork ==
  /\ [](vendor = NoVendor =>
          /\ firstBlock.called = {}
          /\ ~sweepDue /\ observer = <<>>
          /\ batches = <<>> /\ panels = <<>> /\ processedResponses = {})
  /\ []("querySelectorAll" \in firstBlock.called => FirstBlockVendor = vendor)
  /\ [][vendor' = vendor]_vars

\* the claim's matching rule: the normalized texts are equal, or the number
\* of positions at which they agree is at least 95% of the longer length
C21_Matches(q, d) ==
  LET a == normalizeString(q)
      b == normalizeString(DEMO_QUESTIONS[d].question)
      n == IF Len(a) > Len(b) THEN Len(a) ELSE Len(b)
      m == IF Len(a) > Len(b) THEN Len(b) ELSE Len(a)
  IN \/ a = b
     \/ 100 * Cardinality({i \in 1..m : a[i] = b[i]}) >= 95 * n

\* C21: in demo mode a processQueryEarly call that gets past the enabled and
\* cache checks with a query matching a catalog question (equal after
\* normalization, or agreeing at 95% or more of the positions of the longer
\* text) stores an entry whose result is that item's canned response and
\* issues no network call; the lower-case, hyphen-less weight loss question
\* gets the response of q1.
C21_DemoIntercept ==
  [][\A i \in DOMAIN early :
       LET q == early[i].query IN
       (/\ early[i].pc = "settings" /\ early'[i].pc # "settings"
        /\ isDemoModeEnabled /\ enabled /\ queryCache[q] = 0
        /\ \E d \in DOMAIN DEMO_QUESTIONS : C21_Matches(q, d)) =>
         /\ reqs' = reqs
         /\ queryCache'[q] # 0
         /\ \E d \in DOMAIN DEMO_QUESTIONS :
              /\ C21_Matches(q, d)
              /\ entries'[queryCache'[q]].result = DemoResponse(d)
         /\ q = WeightLossQuery =>
              entries'[queryCache'[q]].result.answer = "q1"
    ]_vars

\* the weight loss question, a question with doubled blanks and one with two
\* characters added (95% exactly) are cached with canned responses, without
\* any request
C21_Witness ==
  /\ reqs = <<>>
  /\ \E q \in {WeightLossQuery} :
       queryCache[q] # 0 /\ entries[queryCache[q]].result = DemoResponse(1)
  /\ \E q \in {DoubleSpaced(DemoQuestion4), Exclaimed(DemoQuestion4, 2)} :
       queryCache[q] # 0 /\ entries[queryCache[q]].result = DemoResponse(4)

\* C22: the query cache is keyed by normalized query text: two queries that
\* differ only in letter case or whitespace are served by the same cache
\* entry and cause a single enrichment request.
C22_NormalizedKey ==
  /\ \A q1, q2 \in DOMAIN queryCache :
       (/\ normalizeString(q1) = normalizeString(q2)
        /\ queryCache[q1] # 0 /\ queryCache[q2] # 0) =>
         queryCache[q1] = queryCache[q2]
  /\ \A r1, r2 \in DOMAIN reqs :
       normalizeString(reqs[r1].query) = normalizeString(reqs[r2].query) =>
         r1 = r2

\* what the claim calls a candidate: an unhandled div of at least
\* minResponseLength characters that scores at least 3
C23_Candidates == HeuristicCandidates

\* the page of the claim's example: a div of 400 prose characters and a
\* qualifying div of 200 characters nested in it
C23_Example ==
  dom = <<MetaDiv(400, 0, 0, TRUE), MetaDiv(200, 1, 0, TRUE)>>

\* C23: Meta's heuristic fallback returns at most one element, the
\* highest-scoring candidate (ties broken by longer text) among the elements
\* scoring at least 3, and never an element nested inside another candidate;
\* for a page holding one div of 400 prose characters and a qualifying child
\* div of 200 characters nested in it, exactly the outer div is returned.
C23_HeuristicResult ==
  /\ Len(findResponseContainers) <= 1
  /\ \A k \in DOMAIN findResponseContainers :
       LET e == findResponseContainers[k] IN
       /\ e \in C23_Candidates
       /\ \A d \in C23_Candidates :
            \/ Score(e) > Score(d)
            \/ Score(e) = Score(d) /\ dom[e].len >= dom[d].len
       /\ \A d \in C23_Candidates \ {e} : d \notin AncestorsOrSelf(e)
  /\ (C23_Example /\ processedResponses = {}) => findResponseContainers = <<1>>

\* C23 (amended): on a page whose body text exceeds 3000 characters and
\* where the selectors find nothing, the heuristic returns exactly the
\* candidate ranked first by score, then by text length, then by document
\* order, also when it lies inside a lower-scoring candidate; on a page
\* with less text it returns nothing.  On the example page with more than
\* 3000 characters of body text the outer div is returned.
C23_HeuristicBestRanked ==
  /\ bodyTextLength <= LandingPageLimit => findResponseContainers = <<>>
  /\ (bodyTextLength > LandingPageLimit /\ C23_Candidates # {}) =>
       /\ Len(findResponseContainers) = 1
       /\ findResponseContainers[1] \in C23_Candidates
       /\ \A d \in C23_Candidates :
            LET e == findResponseContainers[1] IN
            \/ Score(e) > Score(d)
            \/ Score(e) = Score(d) /\ dom[e].len > dom[d].len
            \/ Score(e) = Score(d) /\ dom[e].len = dom[d].len /\ e <= d
  /\ (C23_Example /\ processedResponses = {} /\ bodyTextLength > LandingPageLimit) =>
       findResponseContainers = <<1>>

\* a search has returned a div of 400 characters that lies in a
\* lower-scoring candidate of 16000 characters
C23_Witness ==
  \E b \in DOMAIN batches :
    /\ batches[b].responses = <<2>>
    /\ dom[2].parent = 1 /\ dom[1].len = 16000
    /\ Score(1) >= 3 /\ Score(2) > Score(1)

C25_CallSuspended == \E b \in DOMAIN batches : batches[b].pc = "settings"

C26_TimerPrefersCache ==
  [][\A p \in DOMAIN panels :
       LET q == panels[p].query
           id == queryCache[q]
       IN
       /\ (panels[p].pc = "timer" /\ panels'[p].pc # "timer") =>
            IF id = 0
            THEN panels'[p].pc = "delay" /\ panels'[p].entry = 0
            ELSE /\ panels'[p].entry = id
                 /\ reqs' = reqs
                 /\ panels'[p].pc =
                      IF entries[id].result = NoResult THEN "awaitEntry"
                      ELSE "populated"
       /\ (panels[p].req = 0 /\ panels'[p].req # 0) =>
            /\ panels[p].pc = "delay" /\ panels[p].entry = 0
            /\ Len(reqs') = Len(reqs) + 1
            /\ panels'[p].req = Len(reqs')
            /\ reqs'[Len(reqs')].query = q
       /\ (panels[p].pc # "populated" /\ panels'[p].pc = "populated"
           /\ panels'[p].entry # 0) =>
            /\ panels'[p].req = 0
            /\ entries'[panels'[p].entry].result # NoResult
            /\ panels'[p].content = Render(entries'[panels'[p].entry].result)
    ]_vars

\* one panel was populated from the entry of an early call, and another
\* panel of the same query, whose timer had found no entry, has issued its
\* own call
C26_Witness ==
  \E p1, p2 \in DOMAIN panels :
    /\ panels[p1].pc = "populated" /\ panels[p1].entry # 0
    /\ Len(reqs[entries[panels[p1].entry].promise].outcomes) = 1
    /\ panels[p2].req # 0 /\ panels[p2].entry = 0
    /\ panels[p1].query = panels[p2].query

\* the request r settles in this step
C27_Settles(r) == reqs[r].pc = "fetch" /\ reqs'[r].pc = "done"

\* C27: the result field of a cache entry is written exactly once: it goes
\* from null to a non-null result when the entry's request settles (or is
\* non-null from creation for a demo entry) and never changes afterwards,
\* whether the request succeeded or failed.
C27_ResultWrittenOnce ==
  [][/\ \A e \in DOMAIN entries :
          /\ entries'[e].result # entries[e].result =>
               /\ entries[e].result = NoResult
               /\ entries'[e].result # NoResult
               /\ entries[e].promise # 0
               /\ C27_Settles(entries[e].promise)
               /\ entries'[e].result = reqs'[entries[e].promise].result
          /\ (entries[e].promise # 0 /\ C27_Settles(entries[e].promise)) =>
               entries[e].result = NoResult /\ entries'[e].result # NoResult
     /\ \A e \in DOMAIN entries' :
          e \notin DOMAIN entries =>
            IF entries'[e].promise = 0
            THEN /\ entries'[e].result # NoResult
                 /\ entries'[e].result.success
            ELSE /\ entries'[e].result = NoResult
                 /\ reqs'[entries'[e].promise].pc # "done"
    ]_vars

\* the cache holds a demo entry and an entry whose request failed with a
\* server error
C27_Witness ==
  \E e1, e2 \in DOMAIN entries :
    /\ entries[e1].promise = 0 /\ entries[e1].result.success
    /\ entries[e2].promise # 0
    /\ reqs[entries[e2].promise].pc = "done"
    /\ entries[e2].result # NoResult
    /\ ~entries[e2].result.success
    /\ entries[e2].result.errorType = "server"


\* the status the last fetch of a finished processQuery call ended with
C28_StatusOf(r) == StatusOf(reqs[r].outcomes[Len(reqs[r].outcomes)])

C28_EndedWithStatus(r) ==
  /\ reqs[r].pc = "done"
  /\ reqs[r].outcomes[Len(reqs[r].outcomes)] \in StatusOutcomes

\* C28: when the fetch of a processQuery call ends with a non-2xx status,
\* the call makes no further attempt and resolves with a failure whose kind
\* is server for a status of 500 or more and generic for any other status;
\* the generic failures are not retryable and carry the status in their
\* error text, ENDPOINT_NOT_FOUND for 404 and HTTP_<status> otherwise, so
\* the result for 404 differs from the result for every other status.
C28_ClassifiedByStatus ==
  /\ \A r \in DOMAIN reqs :
       C28_EndedWithStatus(r) =>
         /\ ~reqs[r].result.success
         /\ Len(reqs[r].outcomes) = reqs[r].retryCount + 1
         /\ IF C28_StatusOf(r) >= 500
            THEN reqs[r].result.errorType = "server"
            ELSE /\ reqs[r].result.errorType = "generic"
                 /\ reqs[r].result.retryable = "false"
                 /\ reqs[r].result.error =
                      IF C28_StatusOf(r) = 404 THEN "ENDPOINT_NOT_FOUND"
                      ELSE "HTTP_" \o ToString(C28_StatusOf(r))
  /\ \A r1, r2 \in DOMAIN reqs :
       /\ C28_EndedWithStatus(r1) /\ C28_EndedWithStatus(r2)
       /\ C28_StatusOf(r1) = 404 /\ C28_StatusOf(r2) # 404
       => reqs[r1].result # reqs[r2].result

\* one call ended with 404 and another with exactly 500
C28_Witness ==
  \E r1, r2 \in DOMAIN reqs :
    /\ C28_EndedWithStatus(r1) /\ C28_StatusOf(r1) = 404
    /\ C28_EndedWithStatus(r2) /\ C28_StatusOf(r2) = 500
    /\ reqs[r1].result.errorType = "generic"
    /\ reqs[r2].result.errorType = "server"


\* the context key of the response a panel was injected for
C29_Context(p) == createQueryContext(panels[p].query, dom[panels[p].element])

\* C29: no two panels are injected for the same context key (query, text
\* length, class), also when the interval callback has cleared the context
\* set in between.
C29_OnePanelPerContext ==
  \A p1, p2 \in DOMAIN panels : C29_Context(p1) = C29_Context(p2) => p1 = p2


\* the k-th injection compared with the document before it, and the
\* element search of the adapters
C30_Frame(k) ==
  LET before == DocumentAfter(k - 1)
      now == DocumentAfter(k)
      w == panels[k].wrapped
      parent == parentNode(before, w)
  IN /\ now[containerNode(k)] = <<w, panelNode(k)>>
     /\ now[panelNode(k)] = <<>>
     /\ parent # -1
     /\ now[parent] = [i \in DOMAIN before[parent] |->
                         IF before[parent][i] = w THEN containerNode(k)
                         ELSE before[parent][i]]
     /\ \A n \in DOMAIN before : n # parent => now[n] = before[n]
     /\ DOMAIN now = DOMAIN before \cup {containerNode(k), panelNode(k)}

C30_FrameKept == \A k \in DOMAIN panels : C30_Frame(k)

C30_ModelResponses(e) ==
  {a \in Elements : dom[a].matches = "primary" /\ dom[a].conv = dom[e].conv}

C30_MetaChildren(e) ==
  IF dom[e].holdsQuery THEN {c \in Elements : dom[c].parent = e /\ dom[c].len > 100}
  ELSE {}

C30_Injects == Len(panels') = Len(panels) + 1

C30_WrapsEnclosing ==
  LET e == panels'[Len(panels')].element
      w == panels'[Len(panels')].wrapped
  IN CASE vendor = "Gemini" ->
            IF dom[e].conv = 0 \/ (ClosestPrimary(e) = 0 /\ C30_ModelResponses(e) = {})
            THEN w = e
            ELSE dom[w].matches = "primary" /\ w \in AncestorsOrSelf(e)
       [] vendor = "Meta" ->
            IF C30_MetaChildren(e) = {} THEN w = e
            ELSE w \in C30_MetaChildren(e) /\ \A c \in C30_MetaChildren(e) : w <= c
       [] OTHER -> w = e

\* C30: for every adapter, after injectPanel the returned wrapper has
\* exactly two children, the wrapped element first and the panel second;
\* it stands in the parent at the position the wrapped element had; no
\* other node is moved or removed.  The wrapped element is the response
\* element, for Meta the content child when there is one, and for Gemini
\* the model-response that is or encloses the response element, with the
\* default strategy when the element lies in no conversation container or
\* no model-response is found.
C30_InjectPanelFrame ==
  /\ []C30_FrameKept
  /\ [][C30_Injects => C30_WrapsEnclosing]_vars

\* the element search with the first model-response of the conversation
C30_WrapsFound ==
  LET e == panels'[Len(panels')].element
      w == panels'[Len(panels')].wrapped
  IN CASE vendor = "Gemini" ->
            IF dom[e].conv = 0 \/ (ClosestPrimary(e) = 0 /\ C30_ModelResponses(e) = {})
            THEN w = e
            ELSE IF ClosestPrimary(e) # 0 THEN w = ClosestPrimary(e)
            ELSE w \in C30_ModelResponses(e) /\ \A a \in C30_ModelResponses(e) : w <= a
       [] vendor = "Meta" ->
            IF C30_MetaChildren(e) = {} THEN w = e
            ELSE w \in C30_MetaChildren(e) /\ \A c \in C30_MetaChildren(e) : w <= c
       [] OTHER -> w = e

\* C30 (amended): as above, but for Gemini the wrapped element is the
\* nearest model-response that is or encloses the response element and,
\* when there is none, the first model-response of the conversation
\* container the response element lies in.
C30_InjectPanelFound ==
  /\ []C30_FrameKept
  /\ [][C30_Injects => C30_WrapsFound]_vars

\* Gemini has wrapped a model-response that does not enclose the response
\* element, inside the container of an earlier injection
C30_Witness ==
  /\ vendor = "Gemini"
  /\ \E k \in DOMAIN panels :
       /\ panels[k].wrapped \notin AncestorsOrSelf(panels[k].element)
       /\ parentNode(DocumentAfter(k - 1), panels[k].wrapped) > Len(dom)
       /\ DocumentAfter(k)[containerNode(k)] = <<panels[k].wrapped, panelNode(k)>>


\* C31: every element findResponseContainers returns, for every adapter and
\* on every path (primary selector, fallback selectors, Meta's heuristic),
\* passes validateResponse and has a trimmed text strictly longer than
\* timing.minResponseLength.
C31_ReturnedValidAndLong ==
  \A i \in DOMAIN findResponseContainers :
    /\ validateResponse(findResponseContainers[i])
    /\ dom[findResponseContainers[i]].len > minResponseLength


\* an event was dispatched on the input field or its form (a step that
\* repeats the event before it shows in the calls it makes)
C32_InputEvent ==
  /\ event'.type \in {"keydown", "submit"}
  /\ (event' # event \/ early' # early)

\* the listeners handleSubmit was added as, for the event dispatched
C32_Listeners ==
  IF event'.type = "keydown" THEN fields[event'.target].keydown
  ELSE fields[event'.target].submit

\* C32: the input listener calls processQueryEarly if and only if the event
\* is a keydown of Enter without Shift, or a form submit, and the trimmed
\* text of the input is longer than 10 characters; the query passed is the
\* trimmed text.  Any other key, Shift+Enter or a shorter text makes no call.
C32_EnterOrSubmitOnly ==
  [][C32_InputEvent =>
       LET qualifies ==
             /\ \/ event'.type = "submit"
                \/ event'.key = "Enter" /\ ~event'.shiftKey
             /\ Len(trim(inputText)) > 10
       IN IF qualifies
          THEN /\ Len(early') = Len(early) + C32_Listeners
               /\ \A i \in DOMAIN early' :
                    i > Len(early) =>
                      early'[i].query = trim(inputText) /\ early'[i].pc = "settings"
               /\ C32_Listeners <= 1
          ELSE early' = early
    ]_vars

\* Enter was pressed on a field that has the listener, with a text that is
\* long only before trimming or long after trimming, and a call was made
C32_Witness ==
  /\ event.type = "keydown" /\ event.key = "Enter" /\ ~event.shiftKey
  /\ fields[event.target].keydown = 1
  /\ inputText = <<" ", " ">> \o WhichIsBest \o <<" ">>
  /\ early # <<>>
  /\ early[Len(early)].query = WhichIsBest


\* setupInputListener ran: by the call from setupInputMonitoring or by its timer
C33_Polled ==
  \/ watcher' # watcher
  \/ \E f \in DOMAIN fields : fields'[f].keydown # fields[f].keydown

\* C33: setupInputListener polls for the input field every 1000 ms until
\* one is found: a poll without a field schedules the next one in 1000 ms
\* and adds nothing; a poll with a field adds the keydown listener to that
\* field and ends the polling; no field ever carries two listeners, and a
\* field that stays in the document is found in the end.
C33_PollUntilFound ==
  /\ [](\A f \in DOMAIN fields : fields[f].keydown <= 1)
  /\ [][C33_Polled =>
          IF findInputField = 0
          THEN /\ watcher' = [pc |-> "waiting", timeout |-> 1000]
               /\ fields' = fields
          ELSE /\ watcher'.pc = "attached"
               /\ fields'[findInputField].keydown = fields[findInputField].keydown + 1
               /\ \A f \in DOMAIN fields :
                    f # findInputField => fields'[f] = fields[f]]_vars
  /\ [][watcher.pc = "attached" =>
          /\ watcher' = watcher
          /\ \A f \in DOMAIN fields : fields'[f].keydown = fields[f].keydown]_vars
  /\ (<>[](findInputField # 0) => <>(watcher.pc = "attached"))

\* the listener was added to the second field the page mounted, the first
\* one never got one
C33_Witness ==
  /\ watcher.pc = "attached"
  /\ Len(fields) = 2
  /\ fields[1].keydown = 0
  /\ fields[2].keydown = 1


\* a submit button was clicked after setupInputMonitoring had run
C34_Clicked ==
  /\ watcher.pc # "notStarted"
  /\ event'.type = "click"
  /\ (event' # event \/ early' # early)

\* C34: a click on a submit button while the input field holds more than
\* 10 trimmed characters starts early processing of that text, whenever the
\* page mounted the button.
C34_ClickStartsEarly ==
  [][(C34_Clicked /\ findInputField # 0 /\ Len(trim(inputText)) > 10) =>
       /\ Len(early') > Len(early)
       /\ early'[Len(early')].query = trim(inputText)]_vars

\* the step settles the request r of a retry
C35_RetrySettles(r) ==
  reqs[r].caller = "retry" /\ reqs[r].pc # "done" /\ reqs'[r].pc = "done"

\* C35: when hxRetry is invoked while panel P is the current panel, the
\* request is made for P's query and its result is rendered into P, also
\* when another response has been processed and has become the current pair
\* before the request settles.
C35_RetryRendersIntoItsPanel ==
  [][\A r \in DOMAIN reqs :
       C35_RetrySettles(r) =>
         /\ reqs[r].query = panels[reqs[r].panel].query
         /\ panels'[reqs[r].panel].content = Render(reqs'[r].result)
    ]_vars

\* C36: hxDismiss removes only the enrichment panel: the response element
\* that was wrapped together with the panel is still in the document after
\* the dismiss has completed.
C36_DismissKeepsResponse ==
  \A p \in DOMAIN panels :
    panels[p].dismissed =>
      /\ ~isConnected(Document, panelNode(p))
      /\ isConnected(Document, panels[p].wrapped)

\* C37: no injected container is ever nested inside another injected
\* container: a panel is never injected for an element that then lies inside
\* an existing container or contains a panel, also when the container list
\* of one batch holds both an element and one of its descendants.
C37_NoNestedContainers ==
  \A k \in DOMAIN panels :
    LET doc == DocumentAfter(Len(panels))
    IN parentNode(doc, containerNode(k)) \notin Containers
       /\ closest(doc, parentNode(doc, containerNode(k))) = -1

\* the step resumes the population timer of p from await cacheEntry.promise
C38_Resumes(p) == panels[p].pc = "awaitEntry" /\ panels'[p].pc = "populated"

C39_Removes == \E q \in DOMAIN queryCache : queryCache[q] # 0 /\ queryCache'[q] = 0

\* the population timer of p awaits the promise of an entry that is no
\* longer in the cache
C39_AwaitsRemoved(p) ==
  /\ p \in DOMAIN panels
  /\ panels[p].pc = "awaitEntry"
  /\ ~InCache(panels[p].entry)

\* the panel of p shows the result of the request of the entry it awaited
C39_ShowsResult(p) ==
  /\ p \in DOMAIN panels
  /\ panels[p].pc = "populated"
  /\ reqs[entries[panels[p].entry].promise].pc = "done"
  /\ panels[p].content = Render(reqs[entries[panels[p].entry].promise].result)

\* C39: a population timer that has started awaiting a pending cache entry
\* populates its panel with that entry's result even if the entry is removed
\* from the cache (by the sweep or by the clear on disable) before the
\* request settles; the removal cancels or loses no request in flight.
C39_RemovalKeepsRequest ==
  /\ [][C39_Removes => UNCHANGED <<entries, reqs, early, panels>>]_vars
  /\ [][\A p \in DOMAIN panels :
          (C39_AwaitsRemoved(p) /\ panels'[p] # panels[p]) => C39_ShowsResult(p)']_vars
  /\ \A p \in Elements : C39_AwaitsRemoved(p) ~> C39_ShowsResult(p)

\* a timer awaits an entry that the sweep or the clear has removed while its
\* request is in flight, and another timer that awaited a removed entry has
\* rendered the result
C39_Witness ==
  \E p \in DOMAIN panels :
    /\ C39_AwaitsRemoved(p)
    /\ reqs[entries[panels[p].entry].promise].pc = "fetch"
    /\ ~enabled

\* the element satisfies the criteria of the adapter's search: valid, and
\* its text longer than the minimum
C40_Qualifies(e) == validateResponse(e) /\ dom[e].len > minResponseLength

====
